---- MODULE Spec2Model ----
(***************************************************************************)
(* Script Runner: the run controller (ScriptRunnerWindow) and the process  *)
(* runner (ScriptProcess) of runner_app, as a state machine.               *)
(*                                                                         *)
(* Text is modelled as a sequence of symbols.  In an argument string a     *)
(* symbol is a blank (SP), a single quote (QT) or an atom, i.e. a maximal  *)
(* run of ordinary word characters such as "--help".  Process output is a  *)
(* sequence of characters with "\n" as the line terminator.                *)
(*                                                                         *)
(* QProcess is a library: its notifications are the environment.  A start  *)
(* that cannot launch the program reports errorOccurred(FailedToStart)     *)
(* either inside start() or later from the event loop; a process that      *)
(* exits normally reports finished(code, NormalExit); a process that is    *)
(* killed or crashes reports errorOccurred(Crashed) and then               *)
(* finished(code, CrashExit), back to back.  All connections are direct,   *)
(* so a handler runs to completion inside the notification.                *)
(*                                                                         *)
(* Spec is the run controller.  SpecPure applies the pure functions,       *)
(* SpecLoaded starts from any accepted config.json, SpecSettings adds the  *)
(* settings dialog, SpecHandlers the history panel, SpecLogs the logs      *)
(* panel, SpecStartup is the startup of both entry points with a script    *)
(* path, and SpecLegacyFair is the worker-thread runner of                 *)
(* script_runner.py under fair scheduling of its threads.                  *)
(***************************************************************************)
EXTENDS Integers, Sequences, FiniteSets, TLC

\* ------------------------------------------------------------------ bounds
MaxRuns == 2
MaxExtra == 1
MaxInst == 1 + 2 * MaxRuns
\* Profiles a settings dialog may hold, and writes to its profile list
MaxProfiles == 2
MaxStamp == 2
\* Characters in one chunk of process output
MaxChunk == 3
\* Lines a child of the worker-thread runner writes
MaxLines == 1

\* --------------------------------------------------------------- constants
HistoryCap == 40
LegacyHistoryCap == 20
SuggestionCap == 60

SP == " "
QT == "'"

None == "None"

COMMON_ARGUMENTS ==
    << <<"--help">>, <<"--verbose">>, <<"--quiet">>, <<"--log-level">>,
       <<"--config">>, <<"--dry-run">>, <<"--input">>, <<"--output">>,
       <<"--limit">>, <<"--env">> >>

\* ----------------------------------------------------------- small inputs
\* Argument strings the user may type: empty, a built-in token followed by
\* a new one, and a quote that is never closed.
ArgTexts == { <<>>, <<"--help", SP, "x">>, <<QT, "x">> }

ConsoleTexts == { <<"y">> }

ExitCodes == {0, 1}

\* Exit code reported for a process ended by a signal
CrashCodes == {9}

\* Output chunks: two lines, the second without a line terminator.
Chunks == { <<"l", "\n", "l">> }

\* The files the user can pick: extension (as os.path.splitext gives it),
\* first line, readability, and the interpreter of a virtual environment
\* found by walking up from the file's directory ("" when there is none).
FileTable ==
    [ p \in {"a.py", "b.PS1", "c.txt"} |->
        CASE p = "a.py"  -> [ext |-> <<".", "p", "y">>, head |-> <<>>,
                              readable |-> TRUE, venv |-> "/w/.venv/bin/python"]
          [] p = "b.PS1" -> [ext |-> <<".", "P", "S", "1">>, head |-> <<>>,
                              readable |-> TRUE, venv |-> ""]
          [] p = "c.txt" -> [ext |-> <<".", "t", "x", "t">>,
                              head |-> <<"h", "e", "l", "l", "o">>,
                              readable |-> TRUE, venv |-> ""]
          [] OTHER       -> [ext |-> <<>>, head |-> <<"#", "!", "s", "h">>,
                              readable |-> TRUE, venv |-> ""] ]

Paths == DOMAIN FileTable

\* ------------------------------------------------------------------- state
VARIABLES
    host,               \* os.name, os.environ and sys of the running program
    disk,               \* content of the config file
    config,             \* self.config
    history,            \* self.history
    argument_bank,      \* self.argument_bank
    profiles,           \* self.profiles
    profile_box,        \* self.profile_box.currentText()
    interpreter_box,    \* self.interpreter_box.currentText()
    script_path,        \* self.script_path
    local_python,       \* self.local_python
    arg_input,          \* self.arg_input.text()
    console_input,      \* self.console_input.text()
    console,            \* lines of self.output_box
    run_btn,            \* self.run_btn.isEnabled()
    stop_btn,           \* self.stop_btn.isEnabled()
    input_enabled,      \* self.console_input.isEnabled()
    send_btn,           \* self.send_btn.isEnabled()
    status_label,       \* self.status_label.text()
    terminated_by_user, \* self._terminated_by_user
    process,            \* self.process: the owned ScriptProcess instance
    instances,          \* number of ScriptProcess instances created so far
    qstate,             \* QProcess.state() of every instance
    launched,           \* program and arguments of the latest launch
    stdin_writes,       \* number of QProcess.write calls
    external,           \* number of processes spawned by subprocess.Popen
    runs,               \* launches requested so far (managed or external)
    stop_requested,     \* history: stop_script killed the current run
    stopped_before,     \* history: stop_script killed an earlier run
    outcome,            \* history: how the last managed run went
    box_index,          \* self.profile_box.currentIndex(), 0 being "Default"
    dialog,             \* the SettingsDialog while it is open
    written,            \* history: when each entry of self.profiles was written
    probe,              \* the latest result of a function applied on its own
    log_dir,            \* LOG_DIR: its files and how the latest operation went
    boot,               \* the entry point, sys.argv[1] and how far startup got
    worker,             \* script_runner.py: self.worker (0 for None)
    workers,            \* script_runner.py: every ScriptWorker thread and its child
    events              \* script_runner.py: signals queued for the GUI thread

vars == << host, disk, config, history, argument_bank,
           profiles, profile_box, interpreter_box, script_path, local_python,
           arg_input, console_input, console, run_btn, stop_btn,
           input_enabled, send_btn, status_label, terminated_by_user,
           process, instances, qstate, launched, stdin_writes, external,
           runs, stop_requested, stopped_before, outcome,
           box_index, dialog, written, probe,
           log_dir, boot, worker, workers, events >>

\* ----------------------------------------------------------------- helpers
SeqToSet(s) == { s[i] : i \in 1..Len(s) }

InSeq(x, s) == \E i \in 1..Len(s) : s[i] = x

RECURSIVE FilterOut(_, _)
\* [item for item in s if item not in drop]
FilterOut(s, drop) ==
    IF s = <<>> THEN <<>>
    ELSE IF InSeq(Head(s), drop) THEN FilterOut(Tail(s), drop)
         ELSE <<Head(s)>> \o FilterOut(Tail(s), drop)

\* s[-n:]
LastN(s, n) == IF Len(s) <= n THEN s ELSE SubSeq(s, Len(s) - n + 1, Len(s))

\* s[:n]
FirstN(s, n) == IF Len(s) <= n THEN s ELSE SubSeq(s, 1, n)

RECURSIVE AppendNew(_, _)
\* for argument in args: if argument not in bank: bank.append(argument)
AppendNew(bank, args) ==
    IF args = <<>> THEN bank
    ELSE AppendNew(IF InSeq(Head(args), bank) THEN bank
                   ELSE Append(bank, Head(args)), Tail(args))

\* ------------------------------------------------------------ shlex.split
SplitError == [ok |-> FALSE, tokens |-> <<>>]

RECURSIVE ShlexScan(_, _, _, _, _, _, _)
\* shlex.shlex.read_token driven to the end of the text, whitespace_split
\* set and no commenters.  state is "ws" (between tokens), "word" or "quote".
ShlexScan(text, i, state, token, quoted, out, px) ==
    IF i > Len(text)
    THEN CASE state = "quote" -> SplitError
           [] state = "word"  ->
                IF token # <<>> \/ (px /\ quoted)
                THEN [ok |-> TRUE, tokens |-> Append(out, token)]
                ELSE [ok |-> TRUE, tokens |-> out]
           [] OTHER           -> [ok |-> TRUE, tokens |-> out]
    ELSE LET c == text[i] IN
         CASE state = "ws" ->
                IF c = SP THEN ShlexScan(text, i + 1, "ws", <<>>, FALSE, out, px)
                ELSE IF c = QT
                THEN IF px
                     THEN ShlexScan(text, i + 1, "quote", <<>>, TRUE, out, px)
                     ELSE ShlexScan(text, i + 1, "quote", <<QT>>, FALSE, out, px)
                ELSE ShlexScan(text, i + 1, "word", <<c>>, FALSE, out, px)
           [] state = "quote" ->
                IF c = QT
                THEN IF px
                     THEN ShlexScan(text, i + 1, "word", token, TRUE, out, px)
                     ELSE ShlexScan(text, i + 1, "ws", <<>>, FALSE,
                                    Append(out, Append(token, QT)), px)
                ELSE ShlexScan(text, i + 1, "quote", Append(token, c), quoted, out, px)
           [] OTHER ->
                IF c = SP
                THEN ShlexScan(text, i + 1, "ws", <<>>, FALSE, Append(out, token), px)
                ELSE IF c = QT /\ px
                THEN ShlexScan(text, i + 1, "quote", token, TRUE, out, px)
                ELSE ShlexScan(text, i + 1, "word", Append(token, c), quoted, out, px)

ShlexSplit(text, px) == ShlexScan(text, 1, "ws", <<>>, FALSE, <<>>, px)

\* shlex.split(text, posix=...) if text else []
SplitArguments(text, px) ==
    IF text = <<>> THEN [ok |-> TRUE, tokens |-> <<>>] ELSE ShlexSplit(text, px)

\* ------------------------------------------------------ script detection
LowerChar(c) ==
    CASE c = "P" -> "p" [] c = "S" -> "s" [] c = "Y" -> "y" [] c = "J" -> "j"
      [] c = "H" -> "h" [] c = "B" -> "b" [] c = "A" -> "a" [] c = "T" -> "t"
      [] c = "O" -> "o" [] c = "N" -> "n" [] c = "W" -> "w" [] c = "E" -> "e"
      [] c = "R" -> "r" [] c = "L" -> "l" [] c = "D" -> "d"
      [] OTHER -> c

Lower(s) == [i \in 1..Len(s) |-> LowerChar(s[i])]

\* needle in hay
Contains(needle, hay) ==
    \E i \in 1..(Len(hay) - Len(needle) + 1) :
        SubSeq(hay, i, i + Len(needle) - 1) = needle

ExtensionMap(ext) ==
    CASE ext = <<".", "p", "y">>      -> "Python"
      [] ext = <<".", "s", "h">>      -> "Bash"
      [] ext = <<".", "p", "s", "1">> -> "PowerShell"
      [] ext = <<".", "j", "s">>      -> "Node.js"
      [] ext = <<".", "b", "a", "t">> -> "Bash"
      [] OTHER                        -> None

\* Variant: the first line consulted before the extension.
DetectInterpreter_Mut(file) ==
    LET ext == Lower(file.ext) IN
    IF file.readable /\ Contains(<<"p", "y", "t", "h", "o", "n">>, file.head)
    THEN "Python"
    ELSE IF file.readable /\ Contains(<<"n", "o", "d", "e">>, file.head)
    THEN "Node.js"
    ELSE IF file.readable /\ Contains(<<"s", "h">>, file.head) THEN "Bash"
    ELSE ExtensionMap(ext)

DetectInterpreter(file) ==
    LET ext == Lower(file.ext) IN
    IF ExtensionMap(ext) # None THEN ExtensionMap(ext)
    ELSE IF ~file.readable THEN None
    ELSE IF Contains(<<"p", "y", "t", "h", "o", "n">>, file.head) THEN "Python"
    ELSE IF Contains(<<"n", "o", "d", "e">>, file.head) THEN "Node.js"
    ELSE IF Contains(<<"b", "a", "s", "h">>, file.head)
            \/ Contains(<<"s", "h">>, file.head) THEN "Bash"
    ELSE IF Contains(<<"p", "o", "w", "e", "r", "s", "h", "e", "l", "l">>,
                     Lower(file.head)) THEN "PowerShell"
    ELSE None

InterpreterItems == {"Python", "Bash", "PowerShell", "Node.js"}

\* The walk up the directory tree is summarised by the file table.
LocateLocalPython(file) == file.venv

\* ------------------------------------------------- interpreter resolution
PythonNamed == {"/usr/bin/python3"}

\* d.get(key, default)
Get(d, key, default) == IF key \in DOMAIN d THEN d[key] ELSE default

\* Variant: the configured fallback consulted before the environment.
PythonExec_Mut(h, cfg) ==
    IF Get(cfg, "fallback_python", "") # ""
    THEN Get(cfg, "fallback_python", "")
    ELSE IF h.override # "" THEN h.override
    ELSE IF h.base_exec # "" /\ h.base_isfile THEN h.base_exec
    ELSE IF h.executable \in PythonNamed THEN h.executable
    ELSE "python"

PythonExec(h, cfg) ==
    IF h.override # "" THEN h.override
    ELSE IF Get(cfg, "fallback_python", "") # ""
    THEN Get(cfg, "fallback_python", "")
    ELSE IF h.base_exec # "" /\ h.base_isfile THEN h.base_exec
    ELSE IF h.executable \in PythonNamed THEN h.executable
    ELSE "python"

\* next((p for p in profs if p.name == name), None)
FirstProfile(profs, name) ==
    IF \E i \in 1..Len(profs) : profs[i].name = name
    THEN profs[CHOOSE i \in 1..Len(profs) :
                 /\ profs[i].name = name
                 /\ \A j \in 1..(i - 1) : profs[j].name # name]
    ELSE [name |-> None, command |-> "", arguments |-> <<>>]

ResolveInterpreter(name, profs, box, lpython, h, cfg) ==
    LET profile == FirstProfile(profs, box) IN
    IF profile.name # None /\ profile.command # ""
    THEN [program |-> profile.command, extra |-> profile.arguments]
    ELSE IF name = "Python" /\ lpython # ""
    THEN [program |-> lpython, extra |-> <<>>]
    ELSE CASE name = "Python"     -> [program |-> PythonExec(h, cfg), extra |-> <<>>]
           [] name = "Bash"       -> [program |-> "bash", extra |-> <<>>]
           [] name = "PowerShell" ->
                [program |-> "powershell",
                 extra |-> << <<"-ExecutionPolicy">>, <<"Bypass">>, <<"-File">> >>]
           [] name = "Node.js"    -> [program |-> "node", extra |-> <<>>]
           [] OTHER               -> [program |-> "python", extra |-> <<>>]

\* Variant: the script path placed after the user's arguments.
BuildArguments_Mut(extra, path, args) == extra \o args \o << <<path>> >>

\* extra + [self.script_path, *args]
BuildArguments(extra, path, args) == extra \o << <<path>> >> \o args

\* ----------------------------------------------------------- config file
DEFAULT_CONFIG ==
    [theme |-> "dark", history |-> <<>>, external_console |-> FALSE,
     auto_run |-> FALSE, argument_suggestions |-> <<>>,
     interpreter_profiles |-> <<>>, active_profile |-> None]

RubyProfile == [name |-> "ruby", command |-> "ruby", arguments |-> << <<"-w">> >>]

\* A JSON object without members
NoMembers == [k \in {} |-> ""]

\* The config file as open() and json.load find it.  kind is "missing",
\* "unreadable", "invalid" (not JSON), "object", or the kind of another
\* JSON value: "array_empty", "array_pairs" (every item a two-item array or
\* two-character string), "array", "string_empty", "string", "number",
\* "boolean", "null".  data holds the members of an object and the
\* key/value pairs of a pair array.
File(kind, data) == [kind |-> kind, data |-> data]

\* Config files the program is started with: JSON objects with documented
\* keys.
ConfigFiles ==
    { File("object", [interpreter_profiles |-> <<RubyProfile>>]),
      File("object", [external_console |-> TRUE,
                      interpreter_profiles |-> <<RubyProfile>>,
                      active_profile |-> "ruby"]) }

\* d.update(data)
Update(d, data) ==
    [k \in DOMAIN d \cup DOMAIN data |-> IF k \in DOMAIN data THEN data[k] ELSE d[k]]

\* load_config: open() and json.load() run inside the try block, the merge
\* after it.  dict.update takes a mapping or an iterable of pairs and
\* raises TypeError or ValueError on anything else.
LoadConfig(file) ==
    IF file.kind \in {"missing", "unreadable", "invalid"}
    THEN [raised |-> FALSE, config |-> DEFAULT_CONFIG]
    ELSE IF file.kind \in {"object", "array_empty", "array_pairs", "string_empty"}
    THEN [raised |-> FALSE, config |-> Update(DEFAULT_CONFIG, file.data)]
    ELSE [raised |-> TRUE, config |-> DEFAULT_CONFIG]

\* _normalize_history keeps the entries that have a path.
NormalizeHistory(h) == SelectSeq(h, LAMBDA e : e.path # "")

RECURSIVE Dedupe(_, _)
\* list(dict.fromkeys(s)), seen being the items already kept
Dedupe(s, seen) ==
    IF s = <<>> THEN <<>>
    ELSE IF InSeq(Head(s), seen) THEN Dedupe(Tail(s), seen)
         ELSE <<Head(s)>> \o Dedupe(Tail(s), Append(seen, Head(s)))

ProfileNames(profs) == { profs[i].name : i \in 1..Len(profs) }

\* ------------------------------------------------------------------- JSON
\* A JSON text is the tree json.dump writes: null, true, false, a string,
\* an array of texts, or an object given as its members in file order.
JsonNull == [j |-> "null"]

JsonBool(b) == [j |-> IF b THEN "true" ELSE "false"]

JsonString(s) == [j |-> "string", s |-> s]

JsonArray(items) == [j |-> "array", items |-> items]

JsonObject(members) == [j |-> "object", members |-> members]

Member(key, value) == [key |-> key, value |-> value]

\* The text of the value kept under a documented key
JsonEncode(key, v) ==
    CASE key \in {"theme", "fallback_python"} -> JsonString(v)
      [] key \in {"external_console", "auto_run"} -> JsonBool(v)
      [] key = "active_profile" -> IF v = None THEN JsonNull ELSE JsonString(v)
      [] key = "argument_suggestions" ->
            JsonArray([i \in 1..Len(v) |-> JsonString(v[i])])
      [] key = "history" ->
            JsonArray([i \in 1..Len(v) |->
                JsonObject(<< Member("path", JsonString(v[i].path)),
                              Member("arguments", JsonString(v[i].arguments)) >>)])
      [] key = "interpreter_profiles" ->
            JsonArray([i \in 1..Len(v) |->
                JsonObject(<< Member("name", JsonString(v[i].name)),
                              Member("command", JsonString(v[i].command)),
                              Member("arguments",
                                     JsonArray([n \in 1..Len(v[i].arguments) |->
                                                  JsonString(v[i].arguments[n])])) >>)])

\* A dict keeps insertion order: the keys of DEFAULT_CONFIG first, then the
\* others.
KeyOrder ==
    << "theme", "history", "external_console", "auto_run",
       "argument_suggestions", "interpreter_profiles", "active_profile",
       "fallback_python" >>

\* Variant: only the keys of DEFAULT_CONFIG are written.
JsonDump_Mut(cfg) ==
    LET keys == SelectSeq(KeyOrder,
                          LAMBDA k : k \in DOMAIN cfg /\ k # "fallback_python")
    IN JsonObject([i \in 1..Len(keys) |-> Member(keys[i], JsonEncode(keys[i], cfg[keys[i]]))])

\* json.dump(config, handle, indent=2)
JsonDump(cfg) ==
    LET keys == SelectSeq(KeyOrder, LAMBDA k : k \in DOMAIN cfg)
    IN JsonObject([i \in 1..Len(keys) |-> Member(keys[i], JsonEncode(keys[i], cfg[keys[i]]))])

RECURSIVE JsonLoad(_)
\* json.load(handle): the last member with a key is the one kept
JsonLoad(text) ==
    CASE text.j = "null" -> None
      [] text.j = "true" -> TRUE
      [] text.j = "false" -> FALSE
      [] text.j = "string" -> text.s
      [] text.j = "array" -> [i \in 1..Len(text.items) |-> JsonLoad(text.items[i])]
      [] OTHER ->
            LET m == text.members
                last(k) == CHOOSE i \in 1..Len(m) :
                              /\ m[i].key = k
                              /\ \A n \in (i + 1)..Len(m) : m[n].key # k
            IN [k \in { m[i].key : i \in 1..Len(m) } |-> JsonLoad(m[last(k)].value)]

\* The config file as it is found after save_config(cfg) wrote it
Saved(cfg) == File("object", JsonLoad(JsonDump(cfg)))

\* ------------------------------------------------------- console lines
Line(kind) == [kind |-> kind, code |-> 0, text |-> <<>>]

StatusLine(kind, code) == [kind |-> kind, code |-> code, text |-> <<>>]

TextLine(kind, text) == [kind |-> kind, code |-> 0, text |-> text]

STAMP == "[HH:MM:SS] "

\* Line terminators of the output alphabet; "\r\n" counts as one.
Terminators == {"\n", "\r"}

\* Variant: the chunk taken as one segment.
SplitLinesKeep_Mut(s, cur) == IF s = <<>> THEN <<>> ELSE <<s>>

RECURSIVE SplitLinesKeep(_, _)
\* str.splitlines(True): cur is the segment being read
SplitLinesKeep(s, cur) ==
    IF s = <<>> THEN (IF cur = <<>> THEN <<>> ELSE <<cur>>)
    ELSE IF Len(s) >= 2 /\ s[1] = "\r" /\ s[2] = "\n"
         THEN <<cur \o <<"\r", "\n">> >> \o SplitLinesKeep(Tail(Tail(s)), <<>>)
    ELSE IF Head(s) \in Terminators
         THEN <<Append(cur, Head(s))>> \o SplitLinesKeep(Tail(s), <<>>)
         ELSE SplitLinesKeep(Tail(s), Append(cur, Head(s)))

RECURSIVE StampSegments(_)
\* "".join(f"{timestamp}{segment}" for segment in segments)
StampSegments(segs) ==
    IF segs = <<>> THEN <<>>
    ELSE <<STAMP>> \o Head(segs) \o StampSegments(Tail(segs))

\* ScriptProcess._handle_output: the text emitted for one chunk
HandleOutput(chunk) == StampSegments(SplitLinesKeep(chunk, <<>>))

\* ------------------------------------------------ the window as a record
Win ==
    [console |-> console, run_btn |-> run_btn, stop_btn |-> stop_btn,
     input_enabled |-> input_enabled, send_btn |-> send_btn,
     status_label |-> status_label, console_input |-> console_input,
     process |-> process, instances |-> instances,
     terminated_by_user |-> terminated_by_user]

SetWin(w) ==
    /\ console' = w.console
    /\ run_btn' = w.run_btn
    /\ stop_btn' = w.stop_btn
    /\ input_enabled' = w.input_enabled
    /\ send_btn' = w.send_btn
    /\ status_label' = w.status_label
    /\ console_input' = w.console_input
    /\ process' = w.process
    /\ instances' = w.instances
    /\ terminated_by_user' = w.terminated_by_user

\* _append_output: stamped messages are one line; raw text gets a newline
\* unless it ends with one, and empty text is dropped.
AppendOutput(w, entry, stamp) ==
    IF ~stamp /\ entry.text = <<>> THEN w
    ELSE IF stamp THEN [w EXCEPT !.console = Append(@, entry)]
    ELSE [w EXCEPT !.console =
            Append(@, IF entry.text[Len(entry.text)] = "\n" THEN entry
                      ELSE [entry EXCEPT !.text = Append(@, "\n")])]

READY == "Ready"

SetRunningState(w, running) ==
    LET u == [w EXCEPT !.run_btn = ~running, !.stop_btn = running,
                       !.input_enabled = running, !.send_btn = running,
                       !.status_label = IF running THEN "Running" ELSE READY]
    IN IF running THEN u
       ELSE [u EXCEPT !.console_input = <<>>,
                      !.process = w.instances + 1,
                      !.instances = w.instances + 1,
                      !.terminated_by_user = FALSE]

\* Variant: a non-zero exit code taken for a crash.
TerminalMessage_Mut(by_user, exit_code, status) ==
    IF by_user THEN StatusLine("stopped", exit_code)
    ELSE IF exit_code # 0 THEN StatusLine("crashed", exit_code)
    ELSE StatusLine("finished", exit_code)

TerminalMessage(by_user, exit_code, status) ==
    IF by_user THEN StatusLine("stopped", exit_code)
    ELSE IF status = "CrashExit" THEN StatusLine("crashed", exit_code)
    ELSE StatusLine("finished", exit_code)

ProcessFinished(w, exit_code, status) ==
    SetRunningState(
        AppendOutput(w, TerminalMessage(w.terminated_by_user, exit_code, status), TRUE),
        FALSE)

HandleProcessError(w) ==
    SetRunningState(AppendOutput(w, Line("process_error"), TRUE), FALSE)

\* Lines other than the ones a managed run prints by itself (its two banner
\* lines, the process error and the terminal status line).
RunKinds == {"running", "preview", "process_error", "stopped", "crashed", "finished"}

ExtraLines(lines) == Cardinality({ i \in 1..Len(lines) : lines[i].kind \notin RunKinds })

\* ScriptProcess.is_running
IsRunning(p) == qstate[p] # "NotRunning"

\* save_config: the file takes the config, or the write fails silently
SaveConfig(cfg) == disk' = IF host.writable THEN Saved(cfg) ELSE disk

\* The controller shows Running / shows Idle.
ShowsRunning ==
    /\ ~run_btn /\ stop_btn /\ input_enabled /\ send_btn
    /\ status_label = "Running"

ShowsIdle == run_btn /\ ~stop_btn /\ ~input_enabled /\ ~send_btn

\* -------------------------------------------------------------------- Init
NoLaunch == [mode |-> "none", program |-> "", arguments |-> <<>>]

NoOutcome == [kind |-> "none", code |-> 0]

\* No SettingsDialog is open.
NoDialog ==
    [open |-> FALSE, profiles |-> <<>>, stamps |-> <<>>, row |-> 0,
     name |-> "", command |-> "", args |-> <<>>,
     theme_checked |-> FALSE, console_checked |-> FALSE,
     autorun_checked |-> FALSE, python_path |-> ""]

NoProbe == [fn |-> "none"]

\* LOG_DIR with the log file of an earlier session; `last` tells whether
\* the latest file operation on it succeeded, and `raised` whether that
\* operation let an exception leave its handler.
OldLogs == [files |-> {"old.log"}, last |-> "none", raised |-> FALSE]

\* The window is constructed and shown and the event loop runs: runner_app
\* started without a script path.
NoBoot == [entry |-> "app", argv |-> None, pc |-> "loop"]

\* profile_box.findText(text): the box lists "Default" and then the names
\* of the profiles, and the first item with the text is the one found
\* (-1 when there is none).
FindText(profs, text) ==
    IF text = "Default" THEN 0
    ELSE IF \E i \in 1..Len(profs) : profs[i].name = text
    THEN CHOOSE i \in 1..Len(profs) :
            /\ profs[i].name = text
            /\ \A j \in 1..(i - 1) : profs[j].name # text
    ELSE -1

\* The machine the program runs on: the platform, the interpreter override
\* in the environment, sys._base_executable and sys.executable, whether the
\* config file can be written, and the script files the user can pick.
Host(px, wr, fs) ==
    [posix |-> px, override |-> "", base_exec |-> "/usr/bin/python3",
     base_isfile |-> TRUE, executable |-> "/usr/bin/python3",
     writable |-> wr, files |-> fs]

Hosts == { Host(TRUE, TRUE, {"a.py"}), Host(FALSE, FALSE, {"b.PS1"}) }

\* ScriptRunnerWindow.__init__ on the config file `file`.  _apply_profiles
\* selects the active profile when the box lists it, which fires
\* _profile_changed and so writes the config back.
InitBooted(h, file, b) ==
    LET cfg == LoadConfig(file).config
        found == cfg.active_profile # None
                 /\ cfg.active_profile \in ProfileNames(cfg.interpreter_profiles)
    IN
    /\ ~LoadConfig(file).raised
    /\ host = h
    /\ config = cfg
    /\ disk = IF found /\ h.writable THEN Saved(cfg) ELSE file
    /\ history = NormalizeHistory(cfg.history)
    /\ argument_bank = Dedupe(COMMON_ARGUMENTS \o cfg.argument_suggestions, <<>>)
    /\ profiles = cfg.interpreter_profiles
    /\ profile_box = IF found THEN cfg.active_profile ELSE "Default"
    /\ interpreter_box = "Python"
    /\ script_path = None
    /\ local_python = ""
    /\ arg_input = <<>>
    /\ console_input = <<>>
    /\ console = <<>>
    /\ run_btn = TRUE
    /\ stop_btn = FALSE
    /\ input_enabled = FALSE
    /\ send_btn = FALSE
    /\ status_label = READY
    /\ terminated_by_user = FALSE
    /\ process = 1
    /\ instances = 1
    /\ qstate = [i \in 1..MaxInst |-> "NotRunning"]
    /\ launched = NoLaunch
    /\ stdin_writes = 0
    /\ external = 0
    /\ runs = 0
    /\ stop_requested = FALSE
    /\ stopped_before = FALSE
    /\ outcome = NoOutcome
    /\ box_index = FindText(cfg.interpreter_profiles, profile_box)
    /\ dialog = NoDialog
    /\ written = [i \in 1..Len(cfg.interpreter_profiles) |-> 0]
    /\ probe = NoProbe
    /\ log_dir = OldLogs
    /\ boot = b
    /\ worker = 0
    /\ workers = <<>>
    /\ events = <<>>

\* The window shown and its event loop running
InitFrom(h, file) == InitBooted(h, file, NoBoot)

Init == \E h \in Hosts, file \in ConfigFiles : InitFrom(h, file)

\* --------------------------------------------------------- user handlers
uiVars == << console, run_btn, stop_btn, input_enabled, send_btn,
             status_label, console_input, process, instances,
             terminated_by_user >>

procVars == << qstate, launched, stdin_writes, external, runs,
               stop_requested, stopped_before, outcome >>

scriptVars == << interpreter_box, script_path, local_python >>

cfgVars == << disk, config, history, argument_bank >>

legacyVars == << worker, workers, events >>

fixedVars ==
    << host, profiles, profile_box, box_index, dialog, written, probe,
       log_dir, boot, legacyVars >>

\* Everything but probe.
windowVars ==
    << host, disk, config, history, argument_bank, profiles, profile_box,
       interpreter_box, script_path, local_python, arg_input, console_input,
       console, run_btn, stop_btn, input_enabled, send_btn, status_label,
       terminated_by_user, process, instances, qstate, launched,
       stdin_writes, external, runs, stop_requested, stopped_before, outcome,
       box_index, dialog, written, log_dir, boot, legacyVars >>

\* _remember_history
RememberHistory(path) ==
    LET entry == [path |-> path, arguments |-> arg_input]
        kept  == SelectSeq(history, LAMBDA item : item.path # path)
    IN
    /\ history' = FirstN(<<entry>> \o kept, HistoryCap)
    /\ config' = [config EXCEPT !.history = history']
    /\ SaveConfig(config')

LoadScript(path) ==
    LET interpreter == DetectInterpreter(FileTable[path]) IN
    /\ path \in host.files
    /\ script_path' = path
    /\ interpreter_box' = IF interpreter # None /\ interpreter \in InterpreterItems
                          THEN interpreter ELSE interpreter_box
    /\ local_python' = LocateLocalPython(FileTable[path])
    /\ RememberHistory(path)
    /\ UNCHANGED << argument_bank, arg_input, uiVars, procVars, fixedVars >>

\* The user edits the argument field.
EditArguments(text) ==
    /\ arg_input' = text
    /\ arg_input # text
    /\ UNCHANGED << cfgVars, scriptVars, uiVars, procVars, fixedVars >>

\* The user types into the console input field, which takes text only
\* while it is enabled.
TypeConsoleInput(text) ==
    /\ input_enabled
    /\ console_input' = text
    /\ console_input # text
    /\ UNCHANGED << cfgVars, scriptVars, arg_input, console, run_btn, stop_btn,
                    input_enabled, send_btn, status_label, process, instances,
                    terminated_by_user, procVars, fixedVars >>

\* Variant: the console cleared before the running check.
RunRejected_Mut ==
    /\ IsRunning(process)
    /\ ExtraLines(console) < MaxExtra
    /\ SetWin(AppendOutput([Win EXCEPT !.console = <<>>],
                           Line("already_running"), TRUE))
    /\ UNCHANGED << cfgVars, scriptVars, arg_input, procVars, fixedVars >>

\* run_script, lines 478-480
RunRejected ==
    /\ IsRunning(process)
    /\ ExtraLines(console) < MaxExtra
    /\ SetWin(AppendOutput(Win, Line("already_running"), TRUE))
    /\ UNCHANGED << cfgVars, scriptVars, arg_input, procVars, fixedVars >>

\* run_script, lines 481-483
RunNoScript ==
    /\ ~IsRunning(process)
    /\ script_path = None
    /\ ExtraLines(console) < MaxExtra
    /\ SetWin(AppendOutput(Win, Line("no_script"), TRUE))
    /\ UNCHANGED << cfgVars, scriptVars, arg_input, procVars, fixedVars >>

\* Variant: the console cleared before the arguments are parsed.
RunParseError_Mut ==
    /\ ~IsRunning(process)
    /\ script_path # None
    /\ ~SplitArguments(arg_input, host.posix).ok
    /\ ExtraLines(console) < MaxExtra
    /\ SetWin(AppendOutput([Win EXCEPT !.console = <<>>],
                           Line("parse_error"), TRUE))
    /\ UNCHANGED << cfgVars, scriptVars, arg_input, procVars, fixedVars >>

\* run_script, lines 484-488
RunParseError ==
    /\ ~IsRunning(process)
    /\ script_path # None
    /\ ~SplitArguments(arg_input, host.posix).ok
    /\ ExtraLines(console) < MaxExtra
    /\ SetWin(AppendOutput(Win, Line("parse_error"), TRUE))
    /\ UNCHANGED << cfgVars, scriptVars, arg_input, procVars, fixedVars >>

\* run_script, lines 489-494
RecordArguments(args) ==
    /\ argument_bank' = AppendNew(argument_bank, args)
    /\ config' = [config EXCEPT !.argument_suggestions =
                    LastN(FilterOut(argument_bank', COMMON_ARGUMENTS), SuggestionCap)]
    /\ SaveConfig(config')

\* run_script, lines 497-499
ResolvedCommand(mode, args) ==
    LET r == ResolveInterpreter(interpreter_box, profiles, profile_box,
                                local_python, host, config)
    IN [mode |-> mode, program |-> r.program,
        arguments |-> BuildArguments(r.extra, script_path, args)]

\* Variant: the detached launch followed by the transition to Running.
RunExternal_Mut ==
    LET args == SplitArguments(arg_input, host.posix).tokens IN
    /\ ~IsRunning(process)
    /\ script_path # None
    /\ SplitArguments(arg_input, host.posix).ok
    /\ config.external_console
    /\ runs < MaxRuns
    /\ ExtraLines(console) < MaxExtra
    /\ RecordArguments(args)
    /\ runs' = runs + 1
    /\ \E spawned \in BOOLEAN :
         IF spawned
         THEN /\ external' = external + 1
              /\ launched' = ResolvedCommand("external", args)
              /\ console' = Append(console, Line("external_launched"))
              /\ status_label' = "External console"
         ELSE /\ external' = external
              /\ launched' = launched
              /\ console' = Append(console, Line("external_failed"))
              /\ status_label' = "Launch failed"
    /\ run_btn' = FALSE
    /\ stop_btn' = TRUE
    /\ input_enabled' = TRUE
    /\ send_btn' = TRUE
    /\ UNCHANGED << history, scriptVars, arg_input, console_input, process, instances,
                    terminated_by_user, qstate, stdin_writes,
                    stop_requested, stopped_before, outcome, fixedVars >>

\* run_script, lines 501-503 with _launch_external
RunExternal ==
    LET args == SplitArguments(arg_input, host.posix).tokens IN
    /\ ~IsRunning(process)
    /\ script_path # None
    /\ SplitArguments(arg_input, host.posix).ok
    /\ config.external_console
    /\ runs < MaxRuns
    /\ ExtraLines(console) < MaxExtra
    /\ RecordArguments(args)
    /\ runs' = runs + 1
    /\ \E spawned \in BOOLEAN :
         IF spawned
         THEN /\ external' = external + 1
              /\ launched' = ResolvedCommand("external", args)
              /\ console' = Append(console, Line("external_launched"))
              /\ status_label' = "External console"
         ELSE /\ external' = external
              /\ launched' = launched
              /\ console' = Append(console, Line("external_failed"))
              /\ status_label' = "Launch failed"
    /\ UNCHANGED << history, scriptVars, arg_input, run_btn, stop_btn,
                    input_enabled, send_btn, console_input, process, instances,
                    terminated_by_user, qstate, stdin_writes,
                    stop_requested, stopped_before, outcome, fixedVars >>

\* ScriptProcess.start on the owned instance: the QProcess is Starting when
\* start() returns, or it has already failed and told the window so.
StartProcess(w, failed_in_start) ==
    IF failed_in_start THEN HandleProcessError(w) ELSE w

\* run_script, lines 505-513
RunManaged ==
    LET args == SplitArguments(arg_input, host.posix).tokens
        w0   == AppendOutput(
                    AppendOutput([Win EXCEPT !.console = <<>>],
                                 Line("running"), TRUE),
                    Line("preview"), TRUE)
    IN
    /\ ~IsRunning(process)
    /\ script_path # None
    /\ SplitArguments(arg_input, host.posix).ok
    /\ ~config.external_console
    /\ runs < MaxRuns
    /\ RecordArguments(args)
    /\ runs' = runs + 1
    /\ launched' = ResolvedCommand("managed", args)
    /\ \E failed_in_start \in BOOLEAN :
         LET w1 == StartProcess(w0, failed_in_start)
             w2 == SetRunningState([w1 EXCEPT !.terminated_by_user = FALSE], TRUE)
         IN /\ qstate' = IF failed_in_start THEN qstate
                         ELSE [qstate EXCEPT ![process] = "Starting"]
            /\ outcome' = IF failed_in_start THEN [kind |-> "failed", code |-> 0]
                          ELSE [kind |-> "started", code |-> 0]
            /\ SetWin(w2)
    /\ stop_requested' = FALSE
    /\ stopped_before' = (stopped_before \/ stop_requested)
    /\ UNCHANGED << history, scriptVars, arg_input, stdin_writes, external,
                    fixedVars >>

RunScript ==
    \/ RunRejected
    \/ RunNoScript
    \/ RunParseError
    \/ RunExternal
    \/ RunManaged

StopScript ==
    /\ ExtraLines(console) < MaxExtra
    /\ IF ~IsRunning(process)
       THEN /\ SetWin(AppendOutput(Win, Line("no_running"), TRUE))
            /\ stop_requested' = stop_requested
       ELSE /\ SetWin([AppendOutput(Win, Line("stopping"), TRUE)
                          EXCEPT !.terminated_by_user = TRUE])
            /\ stop_requested' = TRUE
    /\ UNCHANGED << cfgVars, scriptVars, arg_input, qstate, launched,
                    stdin_writes, external, runs, stopped_before, outcome,
                    fixedVars >>

\* Variant: the text written to the process without the running check.
SendWhileIdle_Mut ==
    LET text == console_input IN
    /\ ~IsRunning(process)
    /\ ExtraLines(console) < MaxExtra
    /\ SetWin([(IF text # <<>>
                THEN AppendOutput(Win, TextLine("echo", text), TRUE)
                ELSE Win) EXCEPT !.console_input = <<>>])
    /\ stdin_writes' = stdin_writes + 1
    /\ UNCHANGED << cfgVars, scriptVars, arg_input, qstate, launched, external,
                    runs, stop_requested, stopped_before, outcome, fixedVars >>

\* send_console_input, lines 622-627
SendWhileIdle ==
    LET text == console_input IN
    /\ ~IsRunning(process)
    /\ ExtraLines(console) < MaxExtra
    /\ SetWin([(IF text # <<>>
                THEN AppendOutput(Win, TextLine("echo", text), TRUE)
                ELSE Win) EXCEPT !.console_input = <<>>])
    /\ UNCHANGED << cfgVars, scriptVars, arg_input, procVars, fixedVars >>

\* send_console_input, lines 629-638
SendWhileRunning ==
    LET text == console_input IN
    /\ IsRunning(process)
    /\ ExtraLines(console) < MaxExtra
    /\ SetWin([AppendOutput(Win, TextLine("echo", text), TRUE)
                  EXCEPT !.console_input = <<>>])
    /\ stdin_writes' = stdin_writes + 1
    /\ IF text # <<>> /\ ~InSeq(text, argument_bank)
       THEN /\ argument_bank' = Append(argument_bank, text)
            /\ config' = [config EXCEPT !.argument_suggestions =
                            LastN(FilterOut(argument_bank', COMMON_ARGUMENTS),
                                  SuggestionCap)]
            /\ SaveConfig(config')
            /\ UNCHANGED history
       ELSE UNCHANGED cfgVars
    /\ UNCHANGED << scriptVars, arg_input, qstate, launched, external, runs,
                    stop_requested, stopped_before, outcome, fixedVars >>

SendConsoleInput ==
    \/ SendWhileIdle
    \/ SendWhileRunning

\* ------------------------------------------------- QProcess notifications
envFrame == << cfgVars, scriptVars, arg_input, launched, stdin_writes,
               external, runs, stop_requested, stopped_before, fixedVars >>

\* started(): nothing is connected to it.
ProcessStarted(i) ==
    /\ qstate[i] = "Starting"
    /\ qstate' = [qstate EXCEPT ![i] = "Running"]
    /\ UNCHANGED << envFrame, uiVars, outcome >>

\* errorOccurred(FailedToStart) from the event loop
StartFailed(i) ==
    /\ qstate[i] = "Starting"
    /\ qstate' = [qstate EXCEPT ![i] = "NotRunning"]
    /\ SetWin(HandleProcessError(Win))
    /\ outcome' = [kind |-> "failed", code |-> 0]
    /\ UNCHANGED envFrame

\* readyReadStandardOutput
ProcessOutput(i, chunk) ==
    /\ qstate[i] = "Running"
    /\ ExtraLines(console) < MaxExtra
    /\ SetWin(AppendOutput(Win, TextLine("output", HandleOutput(chunk)), FALSE))
    /\ UNCHANGED << envFrame, qstate, outcome >>

\* finished(code, NormalExit)
ProcessExited(i, exit_code) ==
    /\ qstate[i] = "Running"
    /\ qstate' = [qstate EXCEPT ![i] = "NotRunning"]
    /\ SetWin(ProcessFinished(Win, exit_code, "NormalExit"))
    /\ outcome' = [kind |-> "exited", code |-> exit_code]
    /\ UNCHANGED envFrame

\* errorOccurred(Crashed) followed by finished(code, CrashExit)
ProcessCrashed(i, exit_code) ==
    /\ qstate[i] = "Running"
    /\ qstate' = [qstate EXCEPT ![i] = "NotRunning"]
    /\ SetWin(ProcessFinished(HandleProcessError(Win), exit_code, "CrashExit"))
    /\ outcome' = [kind |-> "crashed", code |-> exit_code]
    /\ UNCHANGED envFrame

Next ==
    \/ \E path \in Paths : LoadScript(path)
    \/ \E text \in ArgTexts : EditArguments(text)
    \/ \E text \in ConsoleTexts : TypeConsoleInput(text)
    \/ RunScript
    \/ StopScript
    \/ SendConsoleInput
    \/ \E i \in 1..MaxInst : ProcessStarted(i)
    \/ \E i \in 1..MaxInst : StartFailed(i)
    \/ \E i \in 1..MaxInst, chunk \in Chunks : ProcessOutput(i, chunk)
    \/ \E i \in 1..MaxInst, c \in ExitCodes : ProcessExited(i, c)
    \/ \E i \in 1..MaxInst, c \in CrashCodes : ProcessCrashed(i, c)

Spec == Init /\ [][Next]_vars

\* --------------------------------------------------- the settings dialog
\* " ".join(tokens)
RECURSIVE JoinSpace(_)
JoinSpace(tokens) ==
    IF tokens = <<>> THEN <<>>
    ELSE IF Len(tokens) = 1 THEN tokens[1]
    ELSE tokens[1] \o <<SP>> \o JoinSpace(Tail(tokens))

\* text.split(), cur being the word that is read
RECURSIVE SplitBlank(_, _)
SplitBlank(text, cur) ==
    IF text = <<>> THEN (IF cur = <<>> THEN <<>> ELSE <<cur>>)
    ELSE IF Head(text) = SP
    THEN (IF cur = <<>> THEN <<>> ELSE <<cur>>) \o SplitBlank(Tail(text), <<>>)
    ELSE SplitBlank(Tail(text), Append(cur, Head(text)))

NoProfile == [name |-> None, command |-> "", arguments |-> <<>>]

\* What the user may type into the three profile fields.  Names and
\* commands are typed without blanks around them, so strip() keeps them.
ProfileFields ==
    { [name |-> "ruby", command |-> "irb", args |-> <<>>],
      [name |-> "ruby", command |-> "", args |-> <<"-v", SP, SP, "-T">>] }

\* SettingsDialog._capture_profile_fields
CaptureProfileFields(d) ==
    LET arguments == SplitBlank(d.args, <<>>) IN
    IF d.name = "" /\ d.command = "" /\ arguments = <<>> THEN NoProfile
    ELSE [name |-> IF d.name = "" THEN "Custom" ELSE d.name,
          command |-> d.command, arguments |-> arguments]

RowValid(d) == d.row >= 1 /\ d.row <= Len(d.profiles)

\* The time of the next write to a profile list
NextStamp(d) ==
    LET used == SeqToSet(d.stamps) \cup SeqToSet(written) \cup {0}
    IN 1 + CHOOSE m \in used : \A n \in used : n <= m

\* self._profiles[selection] = profile, or self._profiles.append(profile)
StoreProfile(d, profile) ==
    IF RowValid(d)
    THEN [d EXCEPT !.profiles[d.row] = profile, !.stamps[d.row] = NextStamp(d)]
    ELSE [d EXCEPT !.profiles = Append(@, profile),
                   !.stamps = Append(@, NextStamp(d))]

\* A write the bounds leave room for
CanStore(d) ==
    /\ NextStamp(d) <= MaxStamp
    /\ RowValid(d) \/ Len(d.profiles) < MaxProfiles

\* SettingsDialog._load_selected_profile
LoadSelectedProfile(d) ==
    IF RowValid(d)
    THEN [d EXCEPT !.name = d.profiles[d.row].name,
                   !.command = d.profiles[d.row].command,
                   !.args = JoinSpace(d.profiles[d.row].arguments)]
    ELSE [d EXCEPT !.name = "", !.command = "", !.args = <<>>]

\* Everything the settings dialog and the two boxes leave alone.
dialogFrame ==
    << host, history, argument_bank, script_path, local_python, arg_input,
       uiVars, procVars, probe, log_dir, boot, legacyVars >>

\* open_settings up to dialog.exec(): SettingsDialog.__init__
OpenSettings ==
    /\ ~dialog.open
    /\ dialog' = [NoDialog EXCEPT
                    !.open = TRUE,
                    !.profiles = Get(config, "interpreter_profiles", <<>>),
                    !.stamps = written,
                    !.theme_checked = (Get(config, "theme", "dark") = "dark"),
                    !.console_checked = Get(config, "external_console", FALSE),
                    !.autorun_checked = Get(config, "auto_run", FALSE),
                    !.python_path = Get(config, "fallback_python", "")]
    /\ UNCHANGED << dialogFrame, disk, config, profiles, profile_box,
                    box_index, interpreter_box, written >>

dialogOnly ==
    << dialogFrame, disk, config, profiles, profile_box, box_index,
       interpreter_box, written >>

\* The user clicks a row of the profile list.
SelectRow(i) ==
    /\ dialog.open
    /\ i \in 1..Len(dialog.profiles)
    /\ i # dialog.row
    /\ dialog' = LoadSelectedProfile([dialog EXCEPT !.row = i])
    /\ UNCHANGED dialogOnly

\* The user types into the profile fields.
EditProfileFields(f) ==
    /\ dialog.open
    /\ dialog' = [dialog EXCEPT !.name = f.name, !.command = f.command,
                                !.args = f.args]
    /\ dialog' # dialog
    /\ UNCHANGED dialogOnly

\* SettingsDialog._save_profile, with the list refresh that selects the
\* written row and so reloads the fields from it
SaveProfile ==
    LET profile == CaptureProfileFields(dialog)
        target  == IF RowValid(dialog) THEN dialog.row ELSE Len(dialog.profiles) + 1
    IN
    /\ dialog.open
    /\ profile # NoProfile
    /\ CanStore(dialog)
    /\ dialog' = LoadSelectedProfile([StoreProfile(dialog, profile) EXCEPT !.row = target])
    /\ UNCHANGED dialogOnly

\* SettingsDialog._delete_profile
DeleteProfile ==
    /\ dialog.open
    /\ RowValid(dialog)
    /\ dialog' = [dialog EXCEPT
                    !.profiles = SubSeq(@, 1, dialog.row - 1)
                                 \o SubSeq(@, dialog.row + 1, Len(@)),
                    !.stamps = SubSeq(@, 1, dialog.row - 1)
                               \o SubSeq(@, dialog.row + 1, Len(@)),
                    !.row = 0, !.name = "", !.command = "", !.args = <<>>]
    /\ UNCHANGED dialogOnly

\* SettingsDialog.result_config: the keys handed back to the window
ResultConfig(d) ==
    [theme |-> IF d.theme_checked THEN "dark" ELSE "light",
     external_console |-> d.console_checked,
     auto_run |-> d.autorun_checked,
     interpreter_profiles |-> d.profiles,
     fallback_python |-> d.python_path]

\* SettingsDialog._accept followed by the rest of open_settings:
\* config.update, the profiles rebuilt, _apply_profiles (which selects the
\* first box item carrying the active profile's name) and save_config
AcceptSettings ==
    LET profile == CaptureProfileFields(dialog)
        d       == IF profile = NoProfile THEN dialog ELSE StoreProfile(dialog, profile)
        cfg     == Update(config, ResultConfig(d))
        active  == Get(cfg, "active_profile", None)
        index   == IF active # None /\ active # "" THEN FindText(d.profiles, active) ELSE 0
    IN
    /\ dialog.open
    /\ profile # NoProfile => CanStore(dialog)
    /\ config' = cfg
    /\ profiles' = d.profiles
    /\ written' = d.stamps
    /\ box_index' = IF index > 0 THEN index ELSE 0
    /\ profile_box' = IF index > 0 THEN active ELSE "Default"
    /\ SaveConfig(config')
    /\ dialog' = NoDialog
    /\ UNCHANGED << dialogFrame, interpreter_box >>

\* QDialog.reject
CancelSettings ==
    /\ dialog.open
    /\ dialog' = NoDialog
    /\ UNCHANGED dialogOnly

\* _profile_changed: the user picks another item of the profile box
ProfileChanged(index) ==
    LET name == IF index = 0 THEN "Default" ELSE profiles[index].name IN
    /\ ~dialog.open
    /\ index \in 0..Len(profiles)
    /\ index # box_index
    /\ box_index' = index
    /\ profile_box' = name
    /\ config' = [config EXCEPT !.active_profile =
                                  IF name = "Default" THEN None ELSE name]
    /\ SaveConfig(config')
    /\ UNCHANGED << dialogFrame, profiles, interpreter_box, written, dialog >>

\* _resolve_interpreter(name) for an item of the interpreter box, as
\* run_script calls it for the loaded script, with what it read
Resolve(name) ==
    /\ ~dialog.open
    /\ script_path # None
    /\ probe' = [fn |-> "resolve", name |-> name,
                 profiles |-> profiles, written |-> written,
                 box |-> profile_box, index |-> box_index,
                 lpython |-> local_python, host |-> host,
                 fallback |-> Get(config, "fallback_python", ""),
                 active |-> Get(config, "active_profile", None),
                 output |-> ResolveInterpreter(name, profiles, profile_box,
                                               local_python, host, config)]
    /\ UNCHANGED windowVars

\* Hosts with and without SCRIPT_RUNNER_PYTHON, and a packaged program
\* whose sys.executable is not a Python interpreter.
SettingsHosts ==
    { [Host(TRUE, TRUE, {"a.py"}) EXCEPT !.override = "/env/py"],
      [Host(TRUE, TRUE, {"b.PS1"}) EXCEPT !.override = "/env/py"],
      Host(TRUE, TRUE, {"b.PS1"}),
      [Host(TRUE, TRUE, {"b.PS1"}) EXCEPT !.base_exec = "",
                                          !.executable = "/app/runner"] }

\* A profile the user named like the built-in entry of the profile box
DefaultNamed == [name |-> "Default", command |-> "dflt", arguments |-> <<>>]

\* Config files with one profile, with and without fallback_python
SettingsFiles ==
    { File("object", [interpreter_profiles |-> <<RubyProfile>>]),
      File("object", [interpreter_profiles |-> <<RubyProfile>>,
                      fallback_python |-> "/opt/py"]),
      File("object", [interpreter_profiles |-> <<DefaultNamed>>]) }

InitSettings == \E h \in SettingsHosts, file \in SettingsFiles : InitFrom(h, file)

\* A behaviour ends with the resolution that is checked.
NextSettings ==
    \/ probe = NoProbe /\ OpenSettings
    \/ \E i \in 1..MaxProfiles : probe = NoProbe /\ SelectRow(i)
    \/ \E f \in ProfileFields : probe = NoProbe /\ EditProfileFields(f)
    \/ probe = NoProbe /\ SaveProfile
    \/ probe = NoProbe /\ DeleteProfile
    \/ probe = NoProbe /\ AcceptSettings
    \/ probe = NoProbe /\ CancelSettings
    \/ \E index \in 0..MaxProfiles : probe = NoProbe /\ ProfileChanged(index)
    \/ \E path \in Paths : probe = NoProbe /\ ~dialog.open /\ LoadScript(path)
    \/ \E name \in InterpreterItems : probe = NoProbe /\ Resolve(name)

SpecSettings == InitSettings /\ [][NextSettings]_vars

\* ------------------------------------------------------ the history panel
\* _load_history_entry on item i of the history list: load_script, which
\* records the path with the argument field as it is, and then the field
\* set to the arguments the item carried
LoadHistoryEntry(i) ==
    LET data == history[i]
        path == data.path
    IN
    /\ i \in 1..Len(history)
    /\ IF path \in host.files
       THEN LET interpreter == DetectInterpreter(FileTable[path]) IN
            /\ script_path' = path
            /\ interpreter_box' = IF interpreter # None /\ interpreter \in InterpreterItems
                                  THEN interpreter ELSE interpreter_box
            /\ local_python' = LocateLocalPython(FileTable[path])
            /\ RememberHistory(path)
            /\ arg_input' = Get(data, "arguments", <<>>)
            /\ UNCHANGED uiVars
       ELSE /\ ExtraLines(console) < MaxExtra
            /\ SetWin(AppendOutput(Win, Line("not_found"), TRUE))
            /\ UNCHANGED << scriptVars, arg_input, disk, config, history >>
    /\ UNCHANGED << argument_bank, procVars, fixedVars >>

\* Variant: the entry removed from the list and the file left as it was.
DeleteSelectedHistory_Mut(i) ==
    /\ i \in 1..Len(history)
    /\ history' = SelectSeq(history, LAMBDA entry : entry.path # history[i].path)
    /\ config' = [config EXCEPT !.history = history']
    /\ UNCHANGED << disk, argument_bank, scriptVars, arg_input, uiVars, procVars,
                    fixedVars >>

\* _delete_selected_history with item i selected
DeleteSelectedHistory(i) ==
    /\ i \in 1..Len(history)
    /\ history' = SelectSeq(history, LAMBDA entry : entry.path # history[i].path)
    /\ config' = [config EXCEPT !.history = history']
    /\ SaveConfig(config')
    /\ UNCHANGED << argument_bank, scriptVars, arg_input, uiVars, procVars,
                    fixedVars >>

\* _clear_history_entries, from the context menu of the empty list area
ClearHistoryEntries ==
    /\ history' = <<>>
    /\ config' = [config EXCEPT !.history = <<>>]
    /\ SaveConfig(config')
    /\ UNCHANGED << argument_bank, scriptVars, arg_input, uiVars, procVars,
                    fixedVars >>

\* Config files for the handlers that write the config: a history entry
\* whose file is gone, with and without the external console.
HandlerFiles ==
    { File("object", [history |-> << [path |-> "gone.sh", arguments |-> <<"x">>] >>,
                      interpreter_profiles |-> <<RubyProfile>>,
                      external_console |-> x]) : x \in BOOLEAN }

HandlerHosts == { Host(TRUE, w, {"a.py"}) : w \in BOOLEAN }

InitHandlers == \E h \in HandlerHosts, file \in HandlerFiles : InitFrom(h, file)

\* The handlers that change the config, and what it takes to reach them.
\* The settings dialog is modal: while it is open the window's handlers
\* do not run.
NextHandlers ==
    \/ \E path \in Paths : ~dialog.open /\ LoadScript(path)
    \/ \E text \in ArgTexts : ~dialog.open /\ EditArguments(text)
    \/ \E i \in 1..(HistoryCap + 1) : ~dialog.open /\ LoadHistoryEntry(i)
    \/ \E i \in 1..(HistoryCap + 1) : ~dialog.open /\ DeleteSelectedHistory(i)
    \/ ~dialog.open /\ history # <<>> /\ ClearHistoryEntries
    \/ OpenSettings
    \/ AcceptSettings
    \/ CancelSettings
    \/ \E index \in 0..MaxProfiles : ProfileChanged(index)
    \/ ~dialog.open /\ RunExternal
    \/ ~dialog.open /\ RunManaged
    \/ \E text \in ConsoleTexts : ~dialog.open /\ TypeConsoleInput(text)
    \/ ~dialog.open /\ SendWhileRunning

SpecHandlers == InitHandlers /\ [][NextHandlers]_vars

\* ---------------------------------------------------------- the logs panel
logFrame == << cfgVars, scriptVars, arg_input, procVars, host, profiles,
               profile_box, box_index, dialog, written, probe, boot, legacyVars >>

\* f"{base}_{timestamp}.log"; the clock is the number of files there
LogName == "run_" \o ToString(Cardinality(log_dir.files)) \o ".log"

SaveOutcomes == {"saved", "open_failed", "write_failed"}

\* save_log: open() fails, or the write fails after open() created the
\* file, or the log is written
SaveLog(result) ==
    /\ ExtraLines(console) < MaxExtra
    /\ IF console = <<>>
       THEN /\ result = "saved"
            /\ SetWin(AppendOutput(Win, Line("nothing_to_save"), TRUE))
            /\ UNCHANGED log_dir
       ELSE CASE result = "saved" ->
                   /\ SetWin(AppendOutput(Win, Line("log_saved"), TRUE))
                   /\ log_dir' = [log_dir EXCEPT !.files = @ \cup {LogName},
                                                 !.last = "ok",
                                                 !.raised = FALSE]
              [] result = "open_failed" ->
                   /\ SetWin(AppendOutput(Win, Line("save_failed"), TRUE))
                   /\ log_dir' = [log_dir EXCEPT !.last = "failed", !.raised = FALSE]
              [] OTHER ->
                   /\ SetWin(AppendOutput(Win, Line("save_failed"), TRUE))
                   /\ log_dir' = [log_dir EXCEPT !.files = @ \cup {LogName},
                                                 !.last = "failed",
                                                 !.raised = FALSE]
    /\ UNCHANGED logFrame

\* _delete_selected_log with the item of file `name` selected: os.remove
\* removes the file or raises OSError, which is passed over
DeleteSelectedLog(name, failed) ==
    /\ name \in log_dir.files
    /\ log_dir' = IF failed THEN [log_dir EXCEPT !.last = "failed", !.raised = FALSE]
                  ELSE [log_dir EXCEPT !.files = @ \ {name}, !.last = "ok",
                                       !.raised = FALSE]
    /\ UNCHANGED << logFrame, uiVars >>

ClearOutcomes == {"cleared", "listdir_failed", "remove_failed"}

\* _clear_all_logs: os.listdir raises, outside any try block, or some
\* os.remove raises and is passed over, or every log is removed
ClearAllLogs(result) ==
    /\ CASE result = "cleared" ->
              log_dir' = [log_dir EXCEPT !.files = {}, !.last = "ok", !.raised = FALSE]
         [] result = "listdir_failed" ->
              log_dir' = [log_dir EXCEPT !.last = "failed", !.raised = TRUE]
         [] OTHER ->
              \E kept \in SUBSET log_dir.files :
                  /\ kept # {}
                  /\ log_dir' = [log_dir EXCEPT !.files = kept, !.last = "failed",
                                                !.raised = FALSE]
    /\ UNCHANGED << logFrame, uiVars >>

LogHosts == { Host(TRUE, TRUE, {"a.py"}) }

InitLogs == \E h \in LogHosts, file \in ConfigFiles : InitFrom(h, file)

\* A failed log operation
LogFailure ==
    \/ SaveLog("open_failed")
    \/ SaveLog("write_failed")
    \/ \E name \in log_dir.files : DeleteSelectedLog(name, TRUE)
    \/ ClearAllLogs("listdir_failed")
    \/ ClearAllLogs("remove_failed")

NextLogs ==
    \/ \E path \in Paths : LoadScript(path)
    \/ RunManaged
    \/ \E result \in SaveOutcomes : SaveLog(result)
    \/ \E name \in {"old.log", "run_0.log", "run_1.log", "run_2.log"},
          failed \in BOOLEAN : DeleteSelectedLog(name, failed)
    \/ \E result \in ClearOutcomes : ClearAllLogs(result)

SpecLogs == InitLogs /\ [][NextLogs]_vars

\* ------------------------------------ script_runner.py, the standalone runner
LEGACY_DEFAULT ==
    [theme |-> "dark", history |-> <<>>, external_console |-> FALSE,
     auto_run |-> FALSE]

\* script_runner.load_config: the merge is inside the try block
LegacyLoadConfig(file) ==
    IF file.kind = "object" THEN Update(LEGACY_DEFAULT, file.data) ELSE LEGACY_DEFAULT

\* json.dump of a config whose history is a list of paths
LegacyDump(cfg) ==
    JsonObject(<< Member("theme", JsonString(cfg.theme)),
                  Member("history",
                         JsonArray([i \in 1..Len(cfg.history) |->
                                      JsonString(cfg.history[i])])),
                  Member("external_console", JsonBool(cfg.external_console)),
                  Member("auto_run", JsonBool(cfg.auto_run)) >>)

\* A ScriptWorker after start(): the thread has not entered run() yet.
\* pc is "starting", "popen", "readline", "check" (the stop flag is read
\* after a line), "wait" or "done"; child is "none", "alive", "exited" or
\* "terminated"; pipe counts the lines written and not yet read.
NewWorker ==
    [pc |-> "starting", stop |-> FALSE, child |-> "none", pipe |-> 0,
     wrote |-> 0, reported |-> FALSE]

\* The part of the state ScriptRunner's methods work on
Legacy ==
    [script_path |-> script_path, type_box |-> interpreter_box,
     config |-> config, disk |-> disk, console |-> console,
     run_btn |-> run_btn, stop_btn |-> stop_btn, worker |-> worker,
     workers |-> workers, runs |-> runs, external |-> external,
     aborted |-> FALSE]

SetLegacy(st) ==
    /\ script_path' = st.script_path
    /\ interpreter_box' = st.type_box
    /\ config' = st.config
    /\ disk' = st.disk
    /\ console' = st.console
    /\ run_btn' = st.run_btn
    /\ stop_btn' = st.stop_btn
    /\ worker' = st.worker
    /\ workers' = st.workers
    /\ runs' = st.runs
    /\ external' = st.external

\* Everything the standalone runner never touches
legacyFrame ==
    << host, history, argument_bank, profiles, profile_box, local_python,
       arg_input, console_input, input_enabled, send_btn, status_label,
       terminated_by_user, process, instances, qstate, launched,
       stdin_writes, stop_requested, stopped_before, outcome, box_index,
       dialog, written, probe, log_dir >>

\* hist.remove(path): the first occurrence goes
RemoveFirst(s, x) ==
    IF InSeq(x, s)
    THEN LET i == CHOOSE n \in 1..Len(s) :
                     s[n] = x /\ \A k \in 1..(n - 1) : s[k] # x
         IN SubSeq(s, 1, i - 1) \o SubSeq(s, i + 1, Len(s))
    ELSE s

\* ScriptRunner.load_script
LegacyLoadScript(st, path, h) ==
    LET ext  == Lower(FileTable[path].ext)
        type == CASE ext = <<".", "p", "y">> -> "Python"
                  [] ext = <<".", "s", "h">> -> "Bash"
                  [] ext = <<".", "p", "s", "1">> -> "PowerShell"
                  [] OTHER -> st.type_box
        hist == <<path>> \o RemoveFirst(Get(st.config, "history", <<>>), path)
        cfg  == [st.config EXCEPT !.history = FirstN(hist, LegacyHistoryCap)]
    IN [st EXCEPT !.script_path = path, !.type_box = type, !.config = cfg,
                  !.disk = IF h.writable
                           THEN File("object", JsonLoad(LegacyDump(cfg)))
                           ELSE st.disk]

\* ScriptRunner.run_script.  Nothing checks for a run in progress.  On a
\* POSIX host subprocess has no CREATE_NEW_CONSOLE, so the external launch
\* fails inside the try block.  Assigning self.worker drops the previous
\* ScriptWorker: while its thread has been started and has not entered
\* run() nothing else refers to it, and destroying a running QThread aborts
\* the program; once run() executes, its frame keeps the object alive.
LegacyRunScript(st, h) ==
    IF st.script_path = None
    THEN [st EXCEPT !.console = Append(@, Line("no_script"))]
    ELSE IF Get(st.config, "external_console", FALSE)
    THEN IF h.posix
         THEN [st EXCEPT !.console = Append(@, Line("external_failed")),
                         !.runs = @ + 1]
         ELSE [st EXCEPT !.console = Append(@, Line("external_launched")),
                         !.external = @ + 1, !.runs = @ + 1]
    ELSE LET u == [st EXCEPT !.console = <<Line("running")>>,
                             !.run_btn = FALSE, !.stop_btn = TRUE]
         IN IF st.worker > 0 /\ st.workers[st.worker].pc = "starting"
            THEN [u EXCEPT !.aborted = TRUE]
            ELSE [u EXCEPT !.workers = Append(@, NewWorker),
                           !.worker = Len(st.workers) + 1,
                           !.runs = @ + 1]

\* ScriptRunner.__init__, lines 158-160, and again the __main__ block,
\* lines 420-422
LegacyAutorun(st, cfg, argv, h) ==
    IF Get(cfg, "auto_run", FALSE) /\ argv # None
    THEN LegacyRunScript(LegacyLoadScript(st, argv, h), h)
    ELSE st

\* The window right after setup_ui, before the auto-run of __init__
LegacyFresh(file) ==
    [script_path |-> None, type_box |-> "Python",
     config |-> LegacyLoadConfig(file), disk |-> file, console |-> <<>>,
     run_btn |-> TRUE, stop_btn |-> TRUE, worker |-> 0, workers |-> <<>>,
     runs |-> 0, external |-> 0, aborted |-> FALSE]

\* ScriptRunner() constructed with sys.argv[1] = argv (None without one);
\* pc tells where the program is afterwards.
InitLegacyFrom(h, file, argv, pc) ==
    LET st == LegacyAutorun(LegacyFresh(file), LegacyLoadConfig(file), argv, h) IN
    /\ host = h
    /\ script_path = st.script_path
    /\ interpreter_box = st.type_box
    /\ config = st.config
    /\ disk = st.disk
    /\ console = st.console
    /\ run_btn = st.run_btn
    /\ stop_btn = st.stop_btn
    /\ worker = st.worker
    /\ workers = st.workers
    /\ runs = st.runs
    /\ external = st.external
    /\ boot = [entry |-> "legacy", argv |-> argv, pc |-> pc]
    /\ events = <<>>
    /\ history = <<>>
    /\ argument_bank = <<>>
    /\ profiles = <<>>
    /\ profile_box = "Default"
    /\ local_python = ""
    /\ arg_input = <<>>
    /\ console_input = <<>>
    /\ input_enabled = FALSE
    /\ send_btn = FALSE
    /\ status_label = READY
    /\ terminated_by_user = FALSE
    /\ process = 1
    /\ instances = 1
    /\ qstate = [i \in 1..MaxInst |-> "NotRunning"]
    /\ launched = NoLaunch
    /\ stdin_writes = 0
    /\ stop_requested = FALSE
    /\ stopped_before = FALSE
    /\ outcome = NoOutcome
    /\ box_index = 0
    /\ dialog = NoDialog
    /\ written = <<>>
    /\ probe = NoProbe
    /\ log_dir = OldLogs

\* The __main__ block after ScriptRunner(): the auto-run once more, then
\* show() and the event loop
LegacyMain ==
    LET st == LegacyAutorun(Legacy, config, boot.argv, host) IN
    /\ boot.entry = "legacy"
    /\ boot.pc = "constructed"
    /\ SetLegacy(st)
    /\ boot' = [boot EXCEPT !.pc = IF st.aborted THEN "aborted" ELSE "loop"]
    /\ UNCHANGED << legacyFrame, events >>

\* The event loop of the standalone runner is running.
LegacyLoop == boot.entry = "legacy" /\ boot.pc = "loop"

\* The program has not been aborted.
LegacyAlive == boot.entry = "legacy" /\ boot.pc # "aborted"

\* browse_script, dropEvent or load_selected_history
LegacyLoad(path) ==
    /\ LegacyLoop
    /\ path \in host.files
    /\ script_path # path
    /\ SetLegacy(LegacyLoadScript(Legacy, path, host))
    /\ UNCHANGED << legacyFrame, events, boot >>

\* The Run button, which is disabled while a worker runs
LegacyRun ==
    LET st == LegacyRunScript(Legacy, host) IN
    /\ LegacyLoop
    /\ run_btn
    /\ script_path # None
    /\ runs < MaxRuns
    /\ SetLegacy(st)
    /\ boot' = [boot EXCEPT !.pc = IF st.aborted THEN "aborted" ELSE "loop"]
    /\ UNCHANGED << legacyFrame, events >>

workerFrame ==
    << legacyFrame, script_path, interpreter_box, config, disk, run_btn,
       stop_btn, worker, runs, external, boot >>

\* stop_script: ScriptWorker.stop sets the flag
LegacyStop ==
    /\ LegacyLoop
    /\ worker > 0
    /\ workers[worker].pc # "done"
    /\ ~workers[worker].stop
    /\ workers' = [workers EXCEPT ![worker].stop = TRUE]
    /\ UNCHANGED << workerFrame, console, events >>

\* The thread enters ScriptWorker.run.
WorkerEnter(w) ==
    /\ LegacyAlive
    /\ w \in 1..Len(workers)
    /\ workers[w].pc = "starting"
    /\ workers' = [workers EXCEPT ![w].pc = "popen"]
    /\ UNCHANGED << workerFrame, console, events >>

\* subprocess.Popen: the child runs, or Popen raises and run() emits the
\* error and finished(-1)
WorkerPopen(w, ok) ==
    /\ LegacyAlive
    /\ w \in 1..Len(workers)
    /\ workers[w].pc = "popen"
    /\ IF ok
       THEN /\ workers' = [workers EXCEPT ![w].pc = "readline", ![w].child = "alive"]
            /\ UNCHANGED events
       ELSE /\ workers' = [workers EXCEPT ![w].pc = "done"]
            /\ events' = events \o << [worker |-> w, kind |-> "error"],
                                      [worker |-> w, kind |-> "finished"] >>
    /\ UNCHANGED << workerFrame, console >>

\* process.stdout.readline(): returns a line when one is in the pipe and
\* "" when the child is gone and the pipe is empty; blocks otherwise
WorkerReadline(w) ==
    /\ LegacyAlive
    /\ w \in 1..Len(workers)
    /\ workers[w].pc = "readline"
    /\ IF workers[w].pipe > 0
       THEN /\ workers' = [workers EXCEPT ![w].pc = "check", ![w].pipe = @ - 1]
            /\ events' = Append(events, [worker |-> w, kind |-> "output"])
       ELSE /\ workers[w].child # "alive"
            /\ workers' = [workers EXCEPT ![w].pc = "wait"]
            /\ UNCHANGED events
    /\ UNCHANGED << workerFrame, console >>

\* if self._stop_requested: terminate, emit the notice, break
WorkerCheck(w) ==
    /\ LegacyAlive
    /\ w \in 1..Len(workers)
    /\ workers[w].pc = "check"
    /\ IF workers[w].stop
       THEN /\ workers' = [workers EXCEPT
                             ![w].pc = "wait",
                             ![w].child = IF @ = "alive" THEN "terminated" ELSE @]
            /\ events' = Append(events, [worker |-> w, kind |-> "terminated"])
       ELSE /\ workers' = [workers EXCEPT ![w].pc = "readline"]
            /\ UNCHANGED events
    /\ UNCHANGED << workerFrame, console >>

\* ret = process.wait(); self.finished.emit(ret)
WorkerWait(w) ==
    /\ LegacyAlive
    /\ w \in 1..Len(workers)
    /\ workers[w].pc = "wait"
    /\ workers[w].child # "alive"
    /\ workers' = [workers EXCEPT ![w].pc = "done"]
    /\ events' = Append(events, [worker |-> w, kind |-> "finished"])
    /\ UNCHANGED << workerFrame, console >>

\* A step of the thread of worker w
WorkerStep(w) ==
    \/ WorkerEnter(w)
    \/ \E ok \in BOOLEAN : WorkerPopen(w, ok)
    \/ WorkerReadline(w)
    \/ WorkerCheck(w)
    \/ WorkerWait(w)

\* The child writes a line to its standard output.
ChildWrite(w) ==
    /\ LegacyAlive
    /\ w \in 1..Len(workers)
    /\ workers[w].child = "alive"
    /\ workers[w].wrote < MaxLines
    /\ workers' = [workers EXCEPT ![w].pipe = @ + 1, ![w].wrote = @ + 1]
    /\ UNCHANGED << workerFrame, console, events >>

\* The child exits by itself.
ChildExit(w) ==
    /\ LegacyAlive
    /\ w \in 1..Len(workers)
    /\ workers[w].child = "alive"
    /\ workers' = [workers EXCEPT ![w].child = "exited"]
    /\ UNCHANGED << workerFrame, console, events >>

\* The event loop delivers the oldest queued signal: output_box.append for
\* a line, script_finished for finished
Deliver ==
    LET e == Head(events) IN
    /\ LegacyLoop
    /\ events # <<>>
    /\ events' = Tail(events)
    /\ console' = Append(console, Line(e.kind))
    /\ IF e.kind = "finished"
       THEN /\ run_btn' = TRUE
            /\ stop_btn' = FALSE
            /\ workers' = [workers EXCEPT ![e.worker].reported = TRUE]
       ELSE UNCHANGED << run_btn, stop_btn, workers >>
    /\ UNCHANGED << legacyFrame, script_path, interpreter_box, config, disk,
                    worker, runs, external, boot >>

\* The standalone runner started without a script path, in its event loop
InitLegacy ==
    \E a \in BOOLEAN :
        InitLegacyFrom(Host(TRUE, TRUE, {"a.py", "b.PS1"}),
                       File("object", [auto_run |-> a]), None, "loop")

NextLegacy ==
    \/ \E path \in Paths : LegacyLoad(path)
    \/ LegacyRun
    \/ LegacyStop
    \/ \E w \in 1..MaxRuns : WorkerEnter(w)
    \/ \E w \in 1..MaxRuns, ok \in BOOLEAN : WorkerPopen(w, ok)
    \/ \E w \in 1..MaxRuns : WorkerReadline(w)
    \/ \E w \in 1..MaxRuns : WorkerCheck(w)
    \/ \E w \in 1..MaxRuns : WorkerWait(w)
    \/ \E w \in 1..MaxRuns : ChildWrite(w)
    \/ \E w \in 1..MaxRuns : ChildExit(w)
    \/ Deliver

\* The operating system schedules every thread that can run, and the
\* event loop delivers every queued signal; nothing makes the child write
\* or exit.
SpecLegacyFair ==
    /\ InitLegacy
    /\ [][NextLegacy]_vars
    /\ WF_vars(\E w \in 1..MaxRuns : WorkerStep(w))
    /\ WF_vars(Deliver)

\* ----------------------------------------------- startup with a script path
\* runner_app.app.run has built the window; sys.argv[1] is argv.
AppBoot(argv) == [entry |-> "app", argv |-> argv, pc |-> "constructed"]

\* load_script(path) called by the startup code, which then stands at pc
LoadScriptAt(path, pc) ==
    LET interpreter == DetectInterpreter(FileTable[path]) IN
    /\ path \in host.files
    /\ script_path' = path
    /\ interpreter_box' = IF interpreter # None /\ interpreter \in InterpreterItems
                          THEN interpreter ELSE interpreter_box
    /\ local_python' = LocateLocalPython(FileTable[path])
    /\ RememberHistory(path)
    /\ boot' = [boot EXCEPT !.pc = pc]
    /\ UNCHANGED << argument_bank, arg_input, uiVars, procVars, host, profiles,
                    profile_box, box_index, dialog, written, probe, log_dir,
                    legacyVars >>

\* app.run: window.load_script(argv[1]), then window.show()
AppPreload ==
    /\ boot.entry = "app"
    /\ boot.pc = "constructed"
    /\ LoadScriptAt(boot.argv, "preloaded")

\* schedule_autorun: returns when auto_run is off, reports a path that is
\* not a file, and otherwise posts trigger to the event loop
ScheduleAutorun ==
    /\ boot.entry = "app"
    /\ boot.pc = "preloaded"
    /\ IF ~Get(config, "auto_run", FALSE)
       THEN /\ boot' = [boot EXCEPT !.pc = "loop"]
            /\ UNCHANGED console
       ELSE IF boot.argv \notin host.files
       THEN /\ boot' = [boot EXCEPT !.pc = "loop"]
            /\ console' = Append(console, Line("autorun_skipped"))
       ELSE /\ boot' = [boot EXCEPT !.pc = "scheduled"]
            /\ UNCHANGED console
    /\ UNCHANGED << cfgVars, scriptVars, arg_input, run_btn, stop_btn,
                    input_enabled, send_btn, status_label, console_input,
                    process, instances, terminated_by_user, procVars, host, profiles, profile_box,
                    box_index, dialog, written, probe, log_dir, legacyVars >>

\* trigger, first statement: self.load_script(candidate)
TriggerLoad ==
    /\ boot.entry = "app"
    /\ boot.pc = "scheduled"
    /\ LoadScriptAt(boot.argv, "triggered")

\* trigger, second statement: self.run_script()
TriggerRun ==
    /\ boot.entry = "app"
    /\ boot.pc = "triggered"
    /\ runs = 0
    /\ RunScript

\* The startup code of the entry point has run to its end.
StartupDone ==
    \/ boot.pc = "loop"
    \/ boot.pc = "triggered" /\ runs > 0

\* Both entry points started with a script path; nobody touches the window
\* afterwards except to press Stop.
StartupFiles ==
    { File("object", [auto_run |-> a, external_console |-> x]) :
        a \in BOOLEAN, x \in BOOLEAN }

StartupHosts == { Host(px, TRUE, {"a.py"}) : px \in BOOLEAN }

InitStartup ==
    \E h \in StartupHosts, file \in StartupFiles :
        \/ InitBooted(h, file, AppBoot("a.py"))
        \/ InitLegacyFrom(h, file, "a.py", "constructed")

NextStartup ==
    \/ AppPreload
    \/ ScheduleAutorun
    \/ TriggerLoad
    \/ TriggerRun
    \/ boot.entry = "app" /\ StartupDone /\ StopScript
    \/ \E i \in 1..MaxInst : ProcessStarted(i)
    \/ \E i \in 1..MaxInst : StartFailed(i)
    \/ \E i \in 1..MaxInst, chunk \in Chunks : ProcessOutput(i, chunk)
    \/ \E i \in 1..MaxInst, c \in ExitCodes : ProcessExited(i, c)
    \/ \E i \in 1..MaxInst, c \in CrashCodes : ProcessCrashed(i, c)
    \/ LegacyMain
    \/ LegacyStop
    \/ \E w \in 1..MaxRuns : WorkerEnter(w)
    \/ \E w \in 1..MaxRuns, ok \in BOOLEAN : WorkerPopen(w, ok)
    \/ \E w \in 1..MaxRuns : WorkerReadline(w)
    \/ \E w \in 1..MaxRuns : WorkerCheck(w)
    \/ \E w \in 1..MaxRuns : WorkerWait(w)
    \/ \E w \in 1..MaxRuns : ChildWrite(w)
    \/ \E w \in 1..MaxRuns : ChildExit(w)
    \/ Deliver

SpecStartup == InitStartup /\ [][NextStartup]_vars

\* --------------------------------------- started from any accepted config
\* A history as an earlier or hand-edited config file may hold it: more
\* entries than the cap, and a path listed twice.
LongHistory ==
    [i \in 1..(HistoryCap + 1) |-> [path |-> "old" \o ToString(i), arguments |-> <<>>]]

TwiceHistory ==
    << [path |-> "a.py", arguments |-> <<>>],
       [path |-> "c.txt", arguments |-> <<>>],
       [path |-> "a.py", arguments |-> <<"x">>] >>

LoadedFiles ==
    { File("object", [history |-> LongHistory]),
      File("object", [history |-> TwiceHistory,
                      external_console |-> TRUE,
                      argument_suggestions |->
                          << <<"x">>, <<"--help">>, <<"x">> >>]) }

LoadedHosts == { Host(TRUE, TRUE, {"a.py", "c.txt"}) }

InitLoaded == \E h \in LoadedHosts, file \in LoadedFiles : InitFrom(h, file)

SpecLoaded == InitLoaded /\ [][Next]_vars

\* ------------------------------------------- functions applied on their own
\* Extensions and first lines of the files handed to _detect_interpreter.
DetectExts ==
    { <<".", "p", "y">>, <<".", "P", "Y">>, <<".", "s", "h">>,
      <<".", "p", "s", "1">>, <<".", "j", "s">>, <<".", "b", "a", "t">>,
      <<".", "t", "x", "t">>, <<>> }

DetectHeads ==
    { <<>>, <<"#", "!", "p", "y", "t", "h", "o", "n">>,
      <<"#", "!", "P", "y", "t", "h", "o", "n">>,
      <<"#", "!", "n", "o", "d", "e">>, <<"#", "!", "N", "O", "D", "E">>,
      <<"#", "!", "b", "a", "s", "h">>, <<"#", "!", "s", "h">>,
      <<"#", "!", "p", "o", "w", "e", "r", "s", "h", "e", "l", "l">>,
      <<"#", "!", "P", "o", "w", "e", "r", "S", "h", "e", "l", "l">>,
      <<"#", "!", "r", "u", "b", "y">> }

DetectFiles ==
    { [ext |-> e, head |-> h, readable |-> r, venv |-> ""] :
        e \in DetectExts, h \in DetectHeads, r \in BOOLEAN }

\* Members a config object may hold, each present or absent.
ObjectFiles ==
    { File("object",
           Update(Update(Update(IF t = "" THEN NoMembers ELSE [theme |-> t],
                                IF x THEN [external_console |-> TRUE] ELSE NoMembers),
                         IF f = "" THEN NoMembers ELSE [fallback_python |-> f]),
                  IF a THEN [auto_run |-> TRUE] ELSE NoMembers)) :
        t \in {"", "dark", "light"}, x \in BOOLEAN, f \in {"", "/opt/py"},
        a \in BOOLEAN }

\* What may be found at CONFIG_PATH.
AnyConfigFiles ==
    ObjectFiles
    \cup { File(k, NoMembers) :
             k \in {"missing", "unreadable", "invalid", "array_empty", "array",
                    "string_empty", "string", "number", "boolean", "null"} }
    \cup { File("array_pairs", [theme |-> "light"]) }

\* _detect_interpreter(path) for a file of the table
Detect(file) ==
    /\ probe' = [fn |-> "detect", input |-> file, output |-> DetectInterpreter(file)]
    /\ UNCHANGED windowVars

\* load_config() with `file` at CONFIG_PATH
Load(file) ==
    /\ probe' = [fn |-> "load_config", input |-> file, output |-> LoadConfig(file)]
    /\ UNCHANGED windowVars

\* A config file with every documented key
FullFile ==
    File("object",
         [theme |-> "light", history |-> TwiceHistory, external_console |-> TRUE,
          auto_run |-> TRUE, argument_suggestions |-> << <<"x">>, <<"y">> >>,
          interpreter_profiles |-> <<RubyProfile>>, active_profile |-> "ruby",
          fallback_python |-> "/opt/py"])

DocumentedFiles ==
    ObjectFiles \cup ConfigFiles \cup SettingsFiles \cup LoadedFiles \cup {FullFile}

\* c1 = load_config(); save_config(c1); c2 = load_config(); save_config(c2)
\* with `file` at CONFIG_PATH, which can be written or not
RoundTrip(file, writable) ==
    LET c1    == LoadConfig(file).config
        text1 == JsonDump(c1)
        file1 == IF writable THEN File("object", JsonLoad(text1)) ELSE file
        c2    == LoadConfig(file1).config
        text2 == JsonDump(c2)
    IN
    /\ ~LoadConfig(file).raised
    /\ probe' = [fn |-> "round_trip", input |-> file, writable |-> writable,
                 c1 |-> c1, text1 |-> text1, c2 |-> c2, text2 |-> text2]
    /\ UNCHANGED windowVars

\* Decoded chunks a notification may carry: every text of up to MaxChunk
\* characters over a letter and the two terminators.
OutputChars == {"l", "\n", "\r"}

OutputChunks ==
    UNION { [1..n -> OutputChars] : n \in 0..MaxChunk }

\* readyReadStandardOutput with `chunk` waiting: ScriptProcess._handle_output
\* and the output_ready events it emits
Emit(chunk) ==
    /\ probe' = [fn |-> "handle_output", input |-> chunk,
                 events |-> << HandleOutput(chunk) >>]
    /\ UNCHANGED windowVars

NextPure ==
    \/ \E chunk \in OutputChunks : Emit(chunk)
    \/ \E file \in DetectFiles : Detect(file)
    \/ \E file \in AnyConfigFiles : Load(file)
    \/ \E file \in DocumentedFiles, writable \in BOOLEAN : RoundTrip(file, writable)

SpecPure == Init /\ [][NextPure]_vars

\* ================================================================ properties
StatusKinds == {"stopped", "crashed", "finished"}

Count(lines, kinds) == Cardinality({ i \in 1..Len(lines) : lines[i].kind \in kinds })

HasLine(kind) == \E i \in 1..Len(console) : console[i].kind = kind

\* The terminal status line in the console: the last line _process_finished
\* appended since the console was cleared.
LastStatus(lines) ==
    LET idx == { i \in 1..Len(lines) : lines[i].kind \in StatusKinds } IN
    IF idx = {} THEN Line("none")
    ELSE lines[CHOOSE i \in idx : \A j \in idx : j <= i]

RunEnded == outcome.kind \in {"exited", "crashed"}

NothingRunning == \A i \in 1..MaxInst : qstate[i] = "NotRunning"

\* Everything but the console.
exceptConsole ==
    << host, disk, config, history, argument_bank, profiles, profile_box,
       interpreter_box, script_path, local_python, arg_input, console_input,
       run_btn, stop_btn, input_enabled, send_btn, status_label,
       terminated_by_user, process, instances, qstate, launched,
       stdin_writes, external, runs, stop_requested, stopped_before, outcome,
       box_index, dialog, written, probe, log_dir, boot, legacyVars >>

\* C1: a managed run that stop_script killed ends, whatever notifications
\* the killed process delivers, with the controller Idle and with "Script
\* stopped by user" as the terminal status line.
C1_StoppedRunSaysStopped ==
    (RunEnded /\ stop_requested) =>
        /\ ShowsIdle
        /\ ~IsRunning(process)
        /\ LastStatus(console).kind = "stopped"

\* C2: between handlers the controller shows Running (run disabled, stop and
\* send-input enabled, status "Running") exactly when the owned ScriptProcess
\* reports is_running().
C2_RunningIffProcessAlive == ShowsRunning <=> IsRunning(process)

\* C3: run_script while a managed process runs only appends the "already
\* running" message (nothing started, stopped, queued or cleared), and at
\* most one managed child process is alive at any time.
C3_RunWhileRunningRejected ==
    /\ [](Cardinality({ i \in 1..MaxInst : qstate[i] # "NotRunning" }) <= 1)
    /\ [][(RunScript /\ IsRunning(process)) =>
            /\ console' = Append(console, Line("already_running"))
            /\ UNCHANGED exceptConsole]_vars

C3_Witness == HasLine("already_running") /\ IsRunning(process)

\* C4: after a launch failure, reported inside start() or later, the console
\* holds one message for it and the controller is Idle (run enabled, stop and
\* send-input disabled) until the next explicit run.
C4_LaunchFailureLeavesIdle ==
    outcome.kind = "failed" =>
        /\ ShowsIdle
        /\ ~IsRunning(process)
        /\ Count(console, {"process_error"}) = 1

C6_FailureReportedOnce ==
    (outcome.kind = "failed" \/ (outcome.kind = "crashed" /\ ~stop_requested)) =>
        /\ Count(console, {"process_error", "crashed"}) = 1
        /\ NothingRunning

\* C7: run_script on an argument string that cannot be tokenized appends one
\* parsing-error line and changes nothing else: no process, managed or
\* external, the console not cleared, the suggestion bank and the config, in
\* memory and on disk, as they were.
C7_ParseErrorAborts ==
    [][(RunScript /\ ~IsRunning(process) /\ script_path # None
          /\ ~SplitArguments(arg_input, host.posix).ok) =>
            /\ console' = Append(console, Line("parse_error"))
            /\ UNCHANGED exceptConsole]_vars

C7_Witness == HasLine("parse_error") /\ script_path # None /\ ~IsRunning(process)

\* C8: with external_console set, run_script from Idle launches outside the
\* managed lifecycle: no instance is started or replaced, the controls and
\* the stop flag stay as they were, one line is appended to the console, so
\* that afterwards stop_script finds nothing running and run_script is not
\* rejected.
C8_ExternalRunUnmanaged ==
    [][(RunScript /\ ~IsRunning(process) /\ script_path # None
          /\ SplitArguments(arg_input, host.posix).ok
          /\ config.external_console) =>
            /\ UNCHANGED << qstate, process, instances, run_btn, stop_btn,
                            input_enabled, send_btn, terminated_by_user,
                            stdin_writes, outcome, stop_requested >>
            /\ ~IsRunning(process)'
            /\ external' \in {external, external + 1}
            /\ Len(console') = Len(console) + 1
            /\ SubSeq(console', 1, Len(console)) = console
            /\ console'[Len(console')].kind \in {"external_launched", "external_failed"}]_vars

C8_Witness ==
    /\ external > 0 /\ launched.mode = "external"
    /\ HasLine("external_launched")
    /\ ShowsIdle /\ NothingRunning

\* C9: send_console_input while Idle writes to no process; it echoes the
\* typed text, clears the input field and changes nothing else.
C9_SendWhileIdleOnlyEchoes ==
    [][(SendConsoleInput /\ ~IsRunning(process)) =>
            /\ stdin_writes' = stdin_writes
            /\ console_input' = <<>>
            /\ console' = IF console_input # <<>>
                          THEN Append(console, TextLine("echo", console_input))
                          ELSE console
            /\ UNCHANGED << host, disk, config, history, argument_bank,
                            profiles, profile_box, interpreter_box, script_path,
                            local_python, arg_input, run_btn, stop_btn,
                            input_enabled, send_btn, status_label,
                            terminated_by_user, process, instances, qstate,
                            launched, external, runs, stop_requested,
                            stopped_before, outcome, box_index, dialog,
                            written, probe, log_dir, boot, worker, workers,
                            events >>]_vars

C9_Witness == HasLine("echo") /\ stdin_writes = 0 /\ ~IsRunning(process)

\* C10: the argument list handed to a started process is the resolved
\* interpreter's default arguments, then the script path, then the tokens
\* of the argument string in order; an empty argument string gives no token
\* and is never reported as a parsing error.
C10_ArgumentListOrder ==
    [][/\ (RunManaged \/ (RunExternal /\ external' = external + 1)) =>
            LET extra  == ResolveInterpreter(interpreter_box, profiles, profile_box,
                                             local_python, host, config).extra
                tokens == SplitArguments(arg_input, host.posix).tokens
                given  == launched'.arguments
            IN /\ Len(given) = Len(extra) + 1 + Len(tokens)
               /\ \A i \in 1..Len(extra) : given[i] = extra[i]
               /\ given[Len(extra) + 1] = <<script_path>>
               /\ \A j \in 1..Len(tokens) : given[Len(extra) + 1 + j] = tokens[j]
               /\ (arg_input = <<>> => Len(given) = Len(extra) + 1)
       /\ RunParseError => arg_input # <<>>]_vars

C10_Witness ==
    /\ launched.mode = "managed"
    /\ launched.arguments =
         << <<"-ExecutionPolicy">>, <<"Bypass">>, <<"-File">>, <<"b.PS1">>,
            <<"--help">>, <<"x">> >>

\* C14: a file whose extension (lower-cased) is in the extension table is
\* detected as the table's kind, whatever its first line holds and whether
\* or not it can be read.
C14_ExtensionDecidesFirst ==
    (probe.fn = "detect" /\ ExtensionMap(Lower(probe.input.ext)) # None) =>
        probe.output = ExtensionMap(Lower(probe.input.ext))

C14_Witness ==
    /\ probe.fn = "detect"
    /\ probe.input.ext = <<".", "P", "Y">>
    /\ probe.input.head = <<"#", "!", "n", "o", "d", "e">>
    /\ ~probe.input.readable
    /\ probe.output = "Python"

\* C15: for a readable file whose extension is not in the table the first
\* line is matched without regard to letter case: "python" gives Python,
\* else "node" gives Node.js, else "powershell" gives PowerShell, else
\* "bash" or "sh" gives Bash.
C15_HintCaseInsensitive ==
    (/\ probe.fn = "detect"
     /\ ExtensionMap(Lower(probe.input.ext)) = None
     /\ probe.input.readable) =>
        LET head == Lower(probe.input.head)
            py   == Contains(<<"p", "y", "t", "h", "o", "n">>, head)
            node == Contains(<<"n", "o", "d", "e">>, head)
            pwsh == Contains(<<"p", "o", "w", "e", "r", "s", "h", "e", "l", "l">>, head)
            sh   == Contains(<<"s", "h">>, head)
        IN /\ py => probe.output = "Python"
           /\ (~py /\ node) => probe.output = "Node.js"
           /\ (~py /\ ~node /\ pwsh) => probe.output = "PowerShell"
           /\ (~py /\ ~node /\ ~pwsh /\ sh) => probe.output = "Bash"

\* C20: load_config never raises; it returns the defaults for a missing or
\* unreadable file, for text that is not JSON and for JSON that is not an
\* object, and the defaults overridden by the members of a JSON object.
C20_LoadConfigNeverRaises ==
    probe.fn = "load_config" =>
        /\ ~probe.output.raised
        /\ probe.output.config =
              IF probe.input.kind = "object"
              THEN Update(DEFAULT_CONFIG, probe.input.data)
              ELSE DEFAULT_CONFIG

\* Paths of a history in order, P left out.
OtherPaths(h, P) ==
    LET kept == SelectSeq(h, LAMBDA e : e.path # P)
    IN [i \in 1..Len(kept) |-> kept[i].path]

\* C16: while the loaded script's kind is detected as unknown, run_script
\* starts no process for it, managed or external.
C16_UnknownKindNeverRuns ==
    [][(script_path # None /\ DetectInterpreter(FileTable[script_path]) = None) =>
          ~(RunManaged \/ (RunExternal /\ external' = external + 1))]_vars

\* C17: _remember_history(P) on a history loaded from any config leaves P
\* once, at index 0; with P already listed the length is unchanged and the
\* other entries keep their order; with P new the length grows by one,
\* capped at 40 by dropping the oldest entry.
C17_RememberHistoryInsert ==
    [][\A P \in Paths : LoadScript(P) =>
          LET present == \E i \in 1..Len(history) : history[i].path = P IN
          /\ Len(history') >= 1
          /\ history'[1].path = P
          /\ Cardinality({ i \in 1..Len(history') : history'[i].path = P }) = 1
          /\ present =>
                /\ Len(history') = Len(history)
                /\ OtherPaths(history', P) = OtherPaths(history, P)
          /\ ~present =>
                /\ Len(history') = IF Len(history) < HistoryCap
                                   THEN Len(history) + 1 ELSE HistoryCap
                /\ Tail(history') = FirstN(history, HistoryCap - 1)]_vars

\* C18: the in-memory history never holds more than 40 entries, the state
\* right after startup included.
C18_HistoryAtMostCap == Len(history) <= HistoryCap

\* C19: the argument_suggestions list in the config has at most 60 entries,
\* no entry twice and no member of COMMON_ARGUMENTS.
C19_SuggestionsNormalised ==
    LET sug == config.argument_suggestions IN
    /\ Len(sug) <= SuggestionCap
    /\ \A i, j \in 1..Len(sug) : sug[i] = sug[j] => i = j
    /\ \A i \in 1..Len(sug) : ~InSeq(sug[i], COMMON_ARGUMENTS)

\* The profile box shows the item of a profile.
ProfileSelected == probe.fn = "resolve" /\ probe.index > 0

\* No profile carrying the selected name has a command.
NoProfileCommand ==
    /\ probe.fn = "resolve"
    /\ \A i \in 1..Len(probe.profiles) :
          probe.profiles[i].name = probe.box => probe.profiles[i].command = ""

\* The command of a kind when nothing else is configured
KindDefault(name, h) ==
    CASE name = "Python" ->
            [program |-> IF h.base_exec # "" /\ h.base_isfile THEN h.base_exec
                         ELSE IF h.executable \in PythonNamed THEN h.executable
                         ELSE "python",
             extra |-> <<>>]
      [] name = "Bash" -> [program |-> "bash", extra |-> <<>>]
      [] name = "PowerShell" ->
            [program |-> "powershell",
             extra |-> << <<"-ExecutionPolicy">>, <<"Bypass">>, <<"-File">> >>]
      [] OTHER -> [program |-> "node", extra |-> <<>>]

\* Rules 2 to 5 as the code applies them: the override and the fallback
\* are read for the Python kind only.
LaterRules ==
    IF probe.name = "Python" /\ probe.lpython # ""
    THEN [program |-> probe.lpython, extra |-> <<>>]
    ELSE IF probe.name = "Python" /\ probe.host.override # ""
    THEN [program |-> probe.host.override, extra |-> <<>>]
    ELSE IF probe.name = "Python" /\ probe.fallback # ""
    THEN [program |-> probe.fallback, extra |-> <<>>]
    ELSE KindDefault(probe.name, probe.host)

\* C11: when the selected profile has a command, the resolution is that
\* command with that profile's arguments, for every kind and whatever the
\* virtual environment, override and fallback; a selected profile without a
\* command is skipped for the later rules.
C11_SelectedProfileCommandWins ==
    ProfileSelected =>
        LET selected == probe.profiles[probe.index] IN
        IF selected.command # ""
        THEN probe.output = [program |-> selected.command,
                             extra |-> selected.arguments]
        ELSE probe.output = LaterRules

\* C12 as stated: when no profile command applies the program is, for every
\* kind, the local interpreter (Python only), else the override if set, else
\* the fallback if set, else the kind's default command.
C12_LaterRulesEveryKind ==
    NoProfileCommand =>
        probe.output.program =
            IF probe.name = "Python" /\ probe.lpython # "" THEN probe.lpython
            ELSE IF probe.host.override # "" THEN probe.host.override
            ELSE IF probe.fallback # "" THEN probe.fallback
            ELSE KindDefault(probe.name, probe.host).program

\* C12 amended: when no profile command applies, the Python kind resolves
\* to the local interpreter, else the override, else the fallback, else the
\* default Python command, all without extra arguments; Bash, PowerShell and
\* Node.js resolve to the kind's default command and arguments whatever the
\* override and the fallback.
C12_LaterRulesPythonOnly == NoProfileCommand => probe.output = LaterRules

C12_Witness ==
    /\ NoProfileCommand
    /\ probe.name = "Bash"
    /\ probe.host.override # "" /\ probe.fallback # ""
    /\ probe.output = [program |-> "bash", extra |-> <<>>]

\* C13: when several profiles carry the selected name, the resolution uses
\* the one written last (here: when that one has a command).
C13_LastWrittenProfileWins ==
    ProfileSelected =>
        LET same == { i \in 1..Len(probe.profiles) :
                        probe.profiles[i].name = probe.box }
        IN \A i \in same :
              (/\ Cardinality(same) >= 2
               /\ \A j \in same \ {i} : probe.written[j] < probe.written[i]
               /\ probe.profiles[i].command # "") =>
                 probe.output = [program |-> probe.profiles[i].command,
                                 extra |-> probe.profiles[i].arguments]

\* C21: for a config file that uses only the documented keys, loading,
\* saving what was loaded and loading again gives the value loaded first,
\* and saving that value again writes the text already in the file.
C21_ConfigRoundTrip ==
    probe.fn = "round_trip" =>
        /\ probe.c2 = probe.c1
        /\ probe.writable => probe.text2 = probe.text1

C21_Witness ==
    /\ probe.fn = "round_trip"
    /\ probe.input = FullFile
    /\ probe.writable
    /\ probe.c2.fallback_python = "/opt/py"
    /\ Len(probe.c2.history) = 3

\* The text with the timestamps taken out
Unstamped(text) == SelectSeq(text, LAMBDA c : c # STAMP)

\* The segments of a stamped text: what follows each timestamp
RECURSIVE Segments(_, _)
Segments(text, cur) ==
    IF text = <<>> THEN (IF cur = <<>> THEN <<>> ELSE <<cur>>)
    ELSE IF Head(text) = STAMP
         THEN (IF cur = <<>> THEN <<>> ELSE <<cur>>) \o Segments(Tail(text), <<STAMP>>)
         ELSE Segments(Tail(text), Append(cur, Head(text)))

\* A terminator ends the segment: the last character, or "\r" before "\n"
EndsSegment(seg, i) ==
    \/ i = Len(seg)
    \/ i = Len(seg) - 1 /\ seg[i] = "\r" /\ seg[Len(seg)] = "\n"

\* C23: one chunk gives exactly one output event; its text without the
\* timestamps is the chunk; every segment starts with a timestamp, holds a
\* terminator only at its end, and every segment but the last ends with
\* one, so a trailing partial line is emitted as it is.
C23_OutputPreservesChunk ==
    probe.fn = "handle_output" =>
        LET text == probe.events[1]
            segs == Segments(text, <<>>)
        IN /\ Len(probe.events) = 1
           /\ Unstamped(text) = probe.input
           /\ (text # <<>> => text[1] = STAMP)
           /\ \A n \in 1..Len(segs) :
                 /\ Len(segs[n]) >= 2
                 /\ \A i \in 2..Len(segs[n]) :
                       segs[n][i] \in Terminators => EndsSegment(segs[n], i)
                 /\ n < Len(segs) => segs[n][Len(segs[n])] \in Terminators

C23_Witness ==
    /\ probe.fn = "handle_output"
    /\ probe.input = <<"l", "\n", "l">>
    /\ probe.events = << <<STAMP, "l", "\n", STAMP, "l">> >>

\* C24: a chunk whose last line has no line terminator is shown with a
\* timestamp before each line and nothing added after the partial line, so
\* the shown text without the timestamps is what the process wrote.
C24_PartialLineShownAsWritten ==
    \A i \in 1..Len(console) :
        console[i].kind = "output" =>
            /\ console[i].text[1] = STAMP
            /\ Unstamped(console[i].text) \in Chunks

\* C28: the owned instance is only ever replaced by a newer one, an
\* instance whose run has ended is no longer the owned one (so it is never
\* started again), and the finished notification that a crashed process
\* sends after its error notification, the instance being discarded by
\* then, appends no status line and replaces no instance.
C28_DiscardedInstanceIgnored ==
    [][/\ process' >= process
       /\ \A i \in 1..MaxInst :
             (qstate[i] # "NotRunning" /\ qstate'[i] = "NotRunning") => process' > i
       /\ \A i \in 1..MaxInst, c \in CrashCodes :
             ProcessCrashed(i, c) =>
                /\ instances' = instances + 1
                /\ process' = instances + 1
                /\ Count(console', StatusKinds) = Count(console, StatusKinds)]_vars

\* C29: with the built-in "Default" item selected in the profile box,
\* active_profile is null and the resolution is the one of the later rules,
\* whatever the user-defined profiles are called.
C29_DefaultAppliesNoProfile ==
    (probe.fn = "resolve" /\ probe.index = 0) =>
        /\ probe.active = None
        /\ probe.output = LaterRules

\* The entry of a history for path P
EntryFor(h, P) == h[CHOOSE i \in 1..Len(h) : h[i].path = P]

\* C30: opening a history entry whose file exists puts the entry's saved
\* arguments into the argument field and leaves the arguments recorded in
\* the history for that path as they were, whatever the field held.
C30_OpenEntryKeepsArguments ==
    [][\A i \in 1..Len(history) :
          (LoadHistoryEntry(i) /\ history[i].path \in host.files) =>
              /\ arg_input' = history[i].arguments
              /\ EntryFor(history', history[i].path).arguments
                    = history[i].arguments]_vars

\* C22: a handler that changes the config leaves the config file equal to
\* the config in memory when the file can be written; when it cannot, the
\* handler still completes, the config in memory keeps the new value and
\* the file is as it was.
C22_MutationsAreSaved ==
    [][config' # config =>
          disk' = IF host.writable THEN Saved(config') ELSE disk]_vars

C22_Witness ==
    /\ ~host.writable
    /\ config.history # <<>> /\ config.history[1].path = "a.py"
    /\ config.active_profile = "ruby"
    /\ config.argument_suggestions # <<>>
    /\ "fallback_python" \in DOMAIN config
    /\ disk \in HandlerFiles

\* C27: a failed log operation (save, delete, clear) appends one message
\* to the console, lets no exception leave the handler and changes nothing
\* else: the files of the log directory and the rest of the window are as
\* before.
C27_LogFailureSurfaced ==
    [][LogFailure =>
          /\ Len(console') = Len(console) + 1
          /\ SubSeq(console', 1, Len(console)) = console
          /\ console'[Len(console')].kind = "save_failed"
          /\ ~log_dir'.raised
          /\ log_dir'.files = log_dir.files
          /\ UNCHANGED << logFrame, run_btn, stop_btn, input_enabled, send_btn,
                          status_label, console_input, process, instances,
                          terminated_by_user >>]_vars

\* C26: once stop_script has set the stop flag of a worker, its child is
\* eventually not alive and script_finished is eventually delivered for
\* it, whether or not the child writes another line or exits by itself.
C26_StopEventuallyEnds ==
    \A w \in 1..MaxRuns :
        (w <= Len(workers) /\ workers[w].stop)
            ~> (/\ w <= Len(workers)
                /\ workers[w].child # "alive"
                /\ workers[w].reported)

\* C25: when an entry point was started with a script path, then once its
\* startup code has run the script is the loaded one, exactly one run was
\* started if auto_run is enabled and none if it is disabled, no two runs
\* are alive together, and the program was not aborted on the way.
C25_StartupRunsOnce ==
    /\ boot.pc # "aborted"
    /\ Cardinality({ w \in 1..Len(workers) : workers[w].pc # "done" }) <= 1
    /\ Cardinality({ i \in 1..MaxInst : qstate[i] # "NotRunning" }) <= 1
    /\ (boot.argv # None /\ StartupDone) =>
           /\ script_path = boot.argv
           /\ runs = (IF Get(config, "auto_run", FALSE) THEN 1 ELSE 0)

====
